---- MODULE Spec2Model ----
(***************************************************************************)
(* A model of the InnoDB_rs page decoder and buffer managers.              *)
(*                                                                         *)
(*   Spec        the LRU buffer manager under any caller                   *)
(*               (src/innodb/buffer_manager/lru.rs, mod.rs)                *)
(*   SpecExtern  Row::load_extern walking a LOB over the LRU manager       *)
(*               (src/innodb/table/row.rs, src/innodb/page/lob)            *)
(***************************************************************************)
EXTENDS Integers, Sequences, FiniteSets, Bags, TLC

(***************************************************************************)
(* Bounds of the model.                                                    *)
(***************************************************************************)
\* frames of the LRU manager kept by the model (the source keeps LRU_PAGE_COUNT)
MaxFrames == 2
\* page numbers 0..MaxPageNo of the one tablespace file the model reads
MaxPageNo == 2
\* readings of the system clock are 1..MaxTime
MaxTime == 2
\* live page guards held by the caller at the same time
MaxGuards == 2
\* the length field of an extern reference is 0..MaxExternLen
MaxExternLen == 3
\* the calls of Record::next one traversal of a page makes
MaxSteps == 6
\* the bytes below a record's header that the model chooses; the rest are zero
MaxPreLen == 4

(***************************************************************************)
(* Program constants.                                                      *)
(***************************************************************************)
LRU_PAGE_COUNT == 16
FIL_PAGE_SIZE == 16384
FIL_HEADER_SIZE == 38
FIL_TRAILER_SIZE == 8
\* 0xFFFF_FFFF, written -1: the model's integers are 32-bit signed
FIL_NULL == -1
LOB_INDEX_ENTRY_SIZE == 60
LOB_INDEX_ENTRIES == 10
LOB_FIRST_HEADER_SIZE == 58
LOB_DATA_HEADER_SIZE == 11
\* u16::MAX
U16_MAX == 65535
\* the origins of the infimum and the supremum record of an index page
INFIMUM_OFFSET == 99
SUPREMUM_OFFSET == 112
\* the index header follows the FIL header; its third 16-bit field holds the
\* format flag and the number of heap records
INDEX_HEADER_HEAP_FIELD == 4
\* the fixed part of a record header, below the record's origin
RECORD_HEADER_FIXED_LENGTH == 5
\* the length of an extern reference in a record
EXTERN_HEADER_LEN == 20
\* the two hidden columns after the cluster columns: 6 + 7 bytes
HIDDEN_COLUMNS_LEN == 13

Min(a, b) == IF a < b THEN a ELSE b

\* the frame array is scaled down to MaxFrames frames, never above the source's
FrameCount == Min(MaxFrames, LRU_PAGE_COUNT)
Frames == 0..(FrameCount - 1)

SpaceIds == {1}
PageNos == 0..MaxPageNo
Keys == SpaceIds \X PageNos
NoKey == <<-1, -1>>
NoFrame == -1

\* stands for u64::MAX, the initial min_timestamp of find_free: above every
\* clock reading of the model
U64_MAX == MaxTime + 1
\* stands for u32::MAX, what 0u32 - 1 wraps to in a build without overflow checks
U32_WRAPPED == -1

Times == 1..MaxTime

(***************************************************************************)
(* Page images.  A 16 KiB page is kept as its decoded FIL header fields    *)
(* and the identity of its body.                                           *)
(***************************************************************************)
PageTypes == {"Allocated", "LobFirst", "LobData", "Index", "Unknown"}

\* [0u8; FIL_PAGE_SIZE]: the initial content of every frame, and the image of
\* a hole of the tablespace file
ZeroPage ==
    [space_id |-> 0, offset |-> 0, page_type |-> "Allocated", crc_ok |-> FALSE,
     body |-> 0]

\* a frame that a failed read_exact wrote to: its bytes are unspecified (the
\* old bytes, the file's, or a mix)
TornPage ==
    [space_id |-> 0, offset |-> 0, page_type |-> "Unknown", crc_ok |-> FALSE,
     body |-> -1]

GoodImage(k, pt, b) ==
    [space_id |-> k[1], offset |-> k[2], page_type |-> pt, crc_ok |-> TRUE,
     body |-> b]

\* a page whose stored checksum does not match its bytes
BadCrcImage(k) == [GoodImage(k, "LobData", 1) EXCEPT !.crc_ok = FALSE]

\* a page carved from another position of the tablespace
MisplacedImage(k) ==
    [GoodImage(k, "LobData", 1) EXCEPT !.offset = (k[2] + 1) % (MaxPageNo + 1)]

\* what the 16 KiB at position k of the tablespace file can hold when the LRU
\* manager is exercised alone: a hole, a well-formed page of that number, a
\* page with a wrong checksum, a misplaced page
LruFiles ==
    [k \in Keys |->
        {ZeroPage, GoodImage(k, "LobData", 1), BadCrcImage(k), MisplacedImage(k)}]

IoOutcomes == {"open_err", "seek_err", "read_err", "ok"}

VARIABLES
    backing_store,      \* LRUBufferManager.backing_store: frame -> page image
    page_pin_counter,   \* LRUBufferManager.page_pin_counter: frame -> u32
    page_pin_map,       \* LRUBufferManager.page_pin_map: (space, page) -> frame
    lru_list,           \* LRUBufferManager.lru_list: frame -> u64 last touch
    files,              \* (space, page) -> the images a read of it can return
    guards,             \* the caller's live PageGuards, a bag
    status,             \* "running", or "panicked" once the process died
    last,               \* the last buffer manager call and how it ended
    le,                 \* the frame of a Row::load_extern call
    rw,                 \* a record, its Row and the frame of Row::parse_values
    rc,                 \* an index page and the record a traversal has reached
    pg,                 \* a byte buffer and what Page::from_bytes made of it
    si,                 \* the bytes of an integer field and what they decode to
    ck,                 \* a page and its checksum
    sb,                 \* SimpleBufferManager.page_cache, its files, its calls
    tb,                 \* a CREATE TABLE statement and its TableDefinition
    ts                  \* a run of tablespace_sort: its input, position and output

\* the state of the buffer manager, its files and its callers
managerVars == <<backing_store, page_pin_counter, page_pin_map, lru_list, files,
                 guards, status, last, le>>

\* the state of the decoders that run without a buffer manager
decoderVars == <<rw, rc, pg, si, ck, sb, tb, ts>>

\* the units exercised on their own
unitVars == <<si, ck, sb, tb, ts>>

vars == <<managerVars, decoderVars>>

\* a decoder that is not running
DecoderIdle == [pc |-> "idle"]

\* the manager's fields as one value
BM ==
    [backing_store |-> backing_store, page_pin_counter |-> page_pin_counter,
     page_pin_map |-> page_pin_map, lru_list |-> lru_list]

NoGuard == [space_id |-> 0, offset |-> 0, frame |-> NoFrame]

(***************************************************************************)
(* LRUBufferManager::new                                                   *)
(***************************************************************************)
LruNew ==
    [backing_store |-> [f \in Frames |-> ZeroPage],
     page_pin_counter |-> [f \in Frames |-> 0],
     page_pin_map |-> <<>>,
     lru_list |-> [f \in Frames |-> 0]]

(***************************************************************************)
(* Page::from_bytes on a frame: the header is decoded from the bytes       *)
(***************************************************************************)
FrameHeader(bm, f) == bm.backing_store[f]

(***************************************************************************)
(* LRUBufferManager::find_free                                             *)
(***************************************************************************)
\* (mutant) an unpinned frame is taken as if it were empty
IsEmptyFrameOrUnpinned(bm, idx) ==
    bm.lru_list[idx] = 0 \/ bm.page_pin_counter[idx] = 0

IsEmptyFrame(bm, idx) == bm.lru_list[idx] = 0

\* (mutant) the pin counter is not consulted
IsUnpinnedAlways(bm, idx) == TRUE

IsUnpinned(bm, idx) == bm.page_pin_counter[idx] = 0

RECURSIVE FindFreeLoop(_, _, _, _)
FindFreeLoop(bm, idx, min_timestamp, result_frame) ==
    IF idx = FrameCount
    THEN [early |-> FALSE, min_timestamp |-> min_timestamp, frame |-> result_frame]
    ELSE IF IsEmptyFrame(bm, idx)
    THEN [early |-> TRUE, min_timestamp |-> min_timestamp, frame |-> idx]
    ELSE IF bm.lru_list[idx] < min_timestamp /\ IsUnpinned(bm, idx)
    THEN FindFreeLoop(bm, idx + 1, bm.lru_list[idx], idx)
    ELSE FindFreeLoop(bm, idx + 1, min_timestamp, result_frame)

\* page_pin_map without key k
MapRemove(m, k) == [x \in (DOMAIN m) \ {k} |-> m[x]]

\* page_pin_map with k -> f (HashMap::insert replaces an old entry of k)
MapInsert(m, k, f) == [x \in (DOMAIN m) \cup {k} |-> IF x = k THEN f ELSE m[x]]

\* (mutant) the victim's directory entry is left behind
EvictKeepEntry(bm, victim, frame) ==
    [bm EXCEPT !.lru_list = [@ EXCEPT ![frame] = 0]]

\* the victim's entry leaves the directory and its timestamp is reset
Evict(bm, victim, frame) ==
    [bm EXCEPT !.page_pin_map = MapRemove(@, victim),
               !.lru_list = [@ EXCEPT ![frame] = 0]]

\* (mutant) the sentinel is not checked: result_frame is used as it is
FoundVictimAlways(loop) == TRUE

\* line 69: some unpinned resident frame was seen
FoundVictim(loop) == loop.min_timestamp # U64_MAX

find_free(bm) ==
    LET loop == FindFreeLoop(bm, 0, U64_MAX, 0)
        owners == {k \in DOMAIN bm.page_pin_map : bm.page_pin_map[k] = loop.frame}
    IN  IF loop.early
        THEN [kind |-> "frame", frame |-> loop.frame, evicted |-> NoKey, bm |-> bm]
        ELSE IF FoundVictim(loop)
        THEN IF owners = {}
             THEN [kind |-> "panic_no_frame", frame |-> NoFrame, evicted |-> NoKey,
                   bm |-> bm]
             ELSE LET victim == CHOOSE k \in owners : TRUE
                  IN  [kind |-> "frame", frame |-> loop.frame, evicted |-> victim,
                       bm |-> Evict(bm, victim, loop.frame)]
        ELSE [kind |-> "panic_too_many", frame |-> NoFrame, evicted |-> NoKey,
              bm |-> bm]

(***************************************************************************)
(* LRUBufferManager::pin                                                   *)
(***************************************************************************)
PinOutcome(result, bm, guard, frame, evicted) ==
    [result |-> result, bm |-> bm, guard |-> guard, frame |-> frame,
     evicted |-> evicted]

GuardOf(bm, f) ==
    [space_id |-> FrameHeader(bm, f).space_id, offset |-> FrameHeader(bm, f).offset,
     frame |-> f]

\* (mutant) a hit that forgets to count the new guard
PinHitNoCount(bm, k, t) ==
    LET f == bm.page_pin_map[k]
        bm1 == [bm EXCEPT !.lru_list = [@ EXCEPT ![f] = t]]
    IN  PinOutcome("hit", bm1, GuardOf(bm1, f), f, NoKey)

\* (mutant) a hit that stamps every frame with the clock reading
PinHitTouchesAll(bm, k, t) ==
    LET f == bm.page_pin_map[k]
        bm1 == [bm EXCEPT !.page_pin_counter = [@ EXCEPT ![f] = @ + 1],
                          !.lru_list = [g \in Frames |-> t]]
    IN  PinOutcome("hit", bm1, GuardOf(bm1, f), f, NoKey)

\* the page is resident: lines 108-113
PinHit(bm, k, t) ==
    LET f == bm.page_pin_map[k]
        bm1 == [bm EXCEPT !.page_pin_counter = [@ EXCEPT ![f] = @ + 1],
                          !.lru_list = [@ EXCEPT ![f] = t]]
    IN  PinOutcome("hit", bm1, GuardOf(bm1, f), f, NoKey)

\* (mutant) the bookkeeping without the timestamp
PinCommitNoStamp(bm, k, f, t) ==
    [bm EXCEPT !.page_pin_counter = [@ EXCEPT ![f] = @ + 1],
               !.page_pin_map = MapInsert(@, k, f)]

\* the bookkeeping after validation: lines 135-139
PinCommit(bm, k, f, t) ==
    [bm EXCEPT !.lru_list = [@ EXCEPT ![f] = t],
               !.page_pin_counter = [@ EXCEPT ![f] = @ + 1],
               !.page_pin_map = MapInsert(@, k, f)]

\* (mutant) the bookkeeping of lines 135-139 done before the read, and not
\* undone when the call returns an error
PinFailCommitted(result, bm, k, f, t, evicted) ==
    PinOutcome(result, IF f = NoFrame THEN bm ELSE PinCommit(bm, k, f, t),
               NoGuard, f, evicted)

\* an Err return of pin (the ? operator, line 127): no guard, and the manager as
\* it is at that point
PinFail(result, bm, k, f, t, evicted) ==
    PinOutcome(result, bm, NoGuard, f, evicted)

\* the page is not resident: lines 116-141
PinMiss(bm, k, t, io, img) ==
    IF io = "open_err"
    THEN PinFail("io_open", bm, k, NoFrame, t, NoKey)
    ELSE IF io = "seek_err"
    THEN PinFail("io_seek", bm, k, NoFrame, t, NoKey)
    ELSE LET ff == find_free(bm) IN
         IF ff.kind # "frame"
         THEN PinOutcome(ff.kind, ff.bm, NoGuard, NoFrame, NoKey)
         ELSE LET f == ff.frame IN
              IF io = "read_err"
              THEN PinFail("io_read",
                       [ff.bm EXCEPT !.backing_store = [@ EXCEPT ![f] = TornPage]],
                       k, f, t, ff.evicted)
              ELSE LET bm1 == [ff.bm EXCEPT !.backing_store = [@ EXCEPT ![f] = img]]
                       hdr == FrameHeader(bm1, f)
                   IN  IF hdr.space_id = 0 /\ hdr.offset = 0
                       THEN PinFail("page_not_found", bm1, k, f, t, ff.evicted)
                       ELSE IF hdr.space_id # k[1] \/ hdr.offset # k[2] \/ ~hdr.crc_ok
                       THEN PinOutcome("panic_assert", bm1, NoGuard, f, ff.evicted)
                       ELSE LET bm2 == PinCommit(bm1, k, f, t)
                            IN  PinOutcome("loaded", bm2, GuardOf(bm2, f), f, ff.evicted)

pin(bm, k, t, io, img) ==
    IF k \in DOMAIN bm.page_pin_map
    THEN PinHit(bm, k, t)
    ELSE PinMiss(bm, k, t, io, img)

\* the file system is consulted only on a miss, and the bytes read matter only
\* when the read succeeds
IoChoices(bm, k) == IF k \in DOMAIN bm.page_pin_map THEN {"ok"} ELSE IoOutcomes

ImageChoices(bm, k, io) ==
    IF k \notin DOMAIN bm.page_pin_map /\ io = "ok" THEN files[k] ELSE {ZeroPage}

\* the clock is read by every pin, and its reading is stored only by one that
\* succeeds
ClockChoices(bm, k, io, img) ==
    IF pin(bm, k, 1, io, img).result \in {"hit", "loaded"} THEN Times ELSE {1}

PinErrors == {"io_open", "io_seek", "io_read", "page_not_found"}
PinPanics == {"panic_too_many", "panic_assert", "panic_no_frame"}
PinOks == {"hit", "loaded"}

(***************************************************************************)
(* LRUBufferManager::unpin, called by PageGuard::drop with the guard's page *)
(***************************************************************************)
unpin(bm, g) ==
    LET k == <<g.space_id, g.offset>> IN
    IF k \in DOMAIN bm.page_pin_map
    THEN LET f == bm.page_pin_map[k] IN
         IF bm.page_pin_counter[f] = 0
         THEN [result |-> "underflow",
               bm |-> [bm EXCEPT !.page_pin_counter = [@ EXCEPT ![f] = U32_WRAPPED]]]
         ELSE [result |-> "ok",
               bm |-> [bm EXCEPT !.page_pin_counter = [@ EXCEPT ![f] = @ - 1]]]
    ELSE [result |-> "panic_not_pinned", bm |-> bm]

(***************************************************************************)
(* LOB pages: file_list.rs, page/lob/mod.rs, page/lob/data_page.rs         *)
(***************************************************************************)
FileAddress(p, o) == [page_number |-> p, offset |-> o]

NullAddress == FileAddress(FIL_NULL, 0)

\* FileAddress::is_null
is_null(a) == a.page_number = FIL_NULL

LobIndexEntry(pn, next) == [page_number |-> pn, next |-> next]

\* the position in raw_data of the n-th entry of the first page's index array
EntryOffset(n) == FIL_HEADER_SIZE + LOB_FIRST_HEADER_SIZE + n * LOB_INDEX_ENTRY_SIZE

\* the bytes of a page body, as the LOB decoders read them: the data length of
\* the page's header, the head of the index list, and the index entries by
\* their position in raw_data (only a LobFirst page is read for those)
LobBody(b) ==
    CASE b = 1 -> \* a data page with two payload bytes
           [data_length |-> 2, first_node |-> NullAddress, entries |-> <<>>]
      [] b = 2 -> \* a data page with one payload byte
           [data_length |-> 1, first_node |-> NullAddress, entries |-> <<>>]
      [] b = 3 -> \* a first page: one inline byte, then pages 1 and 2
           [data_length |-> 1, first_node |-> FileAddress(0, EntryOffset(0)),
            entries |->
              [o \in {EntryOffset(0), EntryOffset(1), EntryOffset(2)} |->
                 IF o = EntryOffset(0)
                 THEN LobIndexEntry(0, FileAddress(0, EntryOffset(1)))
                 ELSE IF o = EntryOffset(1)
                 THEN LobIndexEntry(1, FileAddress(0, EntryOffset(2)))
                 ELSE LobIndexEntry(2, NullAddress)]]
      [] b = 4 -> \* a first page: one inline byte and nothing else
           [data_length |-> 1, first_node |-> FileAddress(0, EntryOffset(0)),
            entries |->
              [o \in {EntryOffset(0)} |-> LobIndexEntry(0, NullAddress)]]
      [] b = 5 -> \* a first page whose list head points at the page's last bytes
           [data_length |-> 1,
            first_node |-> FileAddress(0, FIL_PAGE_SIZE - FIL_TRAILER_SIZE),
            entries |-> <<>>]
      [] b = 6 -> \* a first page whose first entry is followed by one on page 2
           [data_length |-> 1, first_node |-> FileAddress(0, EntryOffset(0)),
            entries |->
              [o \in {EntryOffset(0), EntryOffset(1)} |->
                 IF o = EntryOffset(0)
                 THEN LobIndexEntry(0, FileAddress(2, EntryOffset(1)))
                 ELSE LobIndexEntry(0, NullAddress)]]
      [] b = 7 -> \* a page of index entries: the entry of data page 1
           [data_length |-> 0, first_node |-> NullAddress,
            entries |->
              [o \in {EntryOffset(1)} |-> LobIndexEntry(1, NullAddress)]]
      [] b = 8 -> \* a first page whose only entry is its own successor
           [data_length |-> 1, first_node |-> FileAddress(0, EntryOffset(0)),
            entries |->
              [o \in {EntryOffset(0)} |->
                 LobIndexEntry(0, FileAddress(0, EntryOffset(0)))]]
      [] OTHER -> \* zero bytes
           [data_length |-> 0, first_node |-> FileAddress(0, 0), entries |-> <<>>]

\* a page of a tablespace file, from its description <<page type, body>>
PageOf(k, d) == IF d[1] = "hole" THEN ZeroPage ELSE GoodImage(k, d[1], d[2])

\* a tablespace file from the descriptions of its pages 0, 1 and 2; any
\* further page is a data page
LobFile(d0, d1, d2) ==
    [k \in Keys |->
        {PageOf(k, CASE k[2] = 0 -> d0
                     [] k[2] = 1 -> d1
                     [] k[2] = 2 -> d2
                     [] OTHER -> <<"LobData", 1>>)}]

\* the tablespace files a LOB is walked in: a whole chain; a LOB held by the
\* first page alone; a chain whose page 1 is a hole; a chain whose page 2 is
\* of another type; a first page with a bad list head; a chain whose page 1
\* holds no data; a list that goes on in page 2; a list that is a cycle
LobFileChoices ==
    { LobFile(<<"LobFirst", 3>>, <<"LobData", 1>>, <<"LobData", 2>>),
      LobFile(<<"LobFirst", 4>>, <<"hole", 0>>, <<"hole", 0>>),
      LobFile(<<"LobFirst", 3>>, <<"hole", 0>>, <<"LobData", 2>>),
      LobFile(<<"LobFirst", 3>>, <<"LobData", 1>>, <<"LobFirst", 4>>),
      LobFile(<<"LobFirst", 5>>, <<"LobData", 1>>, <<"LobData", 2>>),
      LobFile(<<"LobFirst", 3>>, <<"LobData", 0>>, <<"LobData", 2>>),
      LobFile(<<"LobFirst", 6>>, <<"LobData", 1>>, <<"Unknown", 7>>),
      LobFile(<<"LobFirst", 8>>, <<"hole", 0>>, <<"hole", 0>>) }

\* LobIndexEntry::try_from_bytes(&raw_data[offset..]): row.rs:164-165.  Bytes
\* the body does not describe read as zero.
EntryAt(img, offset) ==
    IF offset > FIL_PAGE_SIZE
    THEN [kind |-> "panic_slice", entry |-> LobIndexEntry(0, NullAddress)]
    ELSE IF FIL_PAGE_SIZE - offset < LOB_INDEX_ENTRY_SIZE
    THEN [kind |-> "err", entry |-> LobIndexEntry(0, NullAddress)]
    ELSE IF offset \in DOMAIN LobBody(img.body).entries
    THEN [kind |-> "ok", entry |-> LobBody(img.body).entries[offset]]
    ELSE [kind |-> "ok", entry |-> LobIndexEntry(0, FileAddress(0, 0))]

\* the copy both read functions end with: the bytes copied, or a panic
ReadSlice(capacity, data_len, offset, buf_len) ==
    IF data_len > capacity
    THEN [kind |-> "panic_slice", n |-> 0]
    ELSE IF ~(offset < data_len)
    THEN [kind |-> "panic_offset", n |-> 0]
    ELSE [kind |-> "ok", n |-> Min(buf_len, data_len - offset)]

\* LobFirst::read
LobFirstRead(img, offset, buf_len) ==
    ReadSlice(FIL_PAGE_SIZE - FIL_HEADER_SIZE - FIL_TRAILER_SIZE
                - LOB_FIRST_HEADER_SIZE - LOB_INDEX_ENTRY_SIZE * LOB_INDEX_ENTRIES,
              LobBody(img.body).data_length, offset, buf_len)

\* LobData::read
LobDataRead(img, offset, buf_len) ==
    ReadSlice(FIL_PAGE_SIZE - FIL_HEADER_SIZE - FIL_TRAILER_SIZE
                - LOB_DATA_HEADER_SIZE,
              LobBody(img.body).data_length, offset, buf_len)

\* usize::saturating_sub
saturating_sub(a, b) == IF a < b THEN 0 ELSE a - b

\* no call of load_extern is active; `turn` is the parity of the turns of the
\* loop over the index entries begun so far
LeIdle ==
    [pc |-> "idle", page_number |-> 0, length |-> 0, first |-> NoGuard,
     data |-> NoGuard, node_location |-> NullAddress,
     node |-> LobIndexEntry(0, NullAddress), page_offset |-> 0, filled |-> 0,
     saved |-> [f \in Frames |-> 0], result |-> "none", turn |-> 0]

\* load_extern has returned: its locals are gone
LeReturned(l, result) ==
    [LeIdle EXCEPT !.pc = "done", !.page_number = l.page_number,
                   !.length = l.length, !.filled = l.filled, !.saved = l.saved,
                   !.result = result]

(***************************************************************************)
(* The caller of the LRU manager: any sequence of pins and guard drops     *)
(***************************************************************************)
SetBM(bm) ==
    /\ backing_store' = bm.backing_store
    /\ page_pin_counter' = bm.page_pin_counter
    /\ page_pin_map' = bm.page_pin_map
    /\ lru_list' = bm.lru_list

InitLru ==
    /\ backing_store = LruNew.backing_store
    /\ page_pin_counter = LruNew.page_pin_counter
    /\ page_pin_map = LruNew.page_pin_map
    /\ lru_list = LruNew.lru_list
    /\ files = LruFiles
    /\ guards = EmptyBag
    /\ status = "running"
    /\ last = [op |-> "new", key |-> NoKey, result |-> "ok", frame |-> NoFrame,
               evicted |-> NoKey]
    /\ le = LeIdle

\* what a call leaves in `last`
PinRecord(k, r) ==
    [op |-> "pin", key |-> k, result |-> r.result, frame |-> r.frame,
     evicted |-> r.evicted]

UnpinRecord(g, r) ==
    [op |-> "unpin", key |-> <<g.space_id, g.offset>>, result |-> r.result,
     frame |-> g.frame, evicted |-> NoKey]

\* 0u32 - 1 panics in a build with overflow checks and wraps in one without
DropStatus(result) ==
    IF result = "panic_not_pinned" THEN {"panicked"}
    ELSE IF result = "underflow" THEN {"panicked", "running"}
    ELSE {"running"}

\* a pin by the caller, who has taken what load_extern returned, if it ran
ClientPin ==
    /\ status = "running"
    /\ UNCHANGED decoderVars
    /\ le.pc \in {"idle", "done"}
    /\ \E k \in Keys :
         \E io \in IoChoices(BM, k) :
           \E img \in ImageChoices(BM, k, io) :
            \E t \in ClockChoices(BM, k, io, img) :
             LET r == pin(BM, k, t, io, img) IN
             /\ r.result \in PinOks => BagCardinality(guards) < MaxGuards
             /\ SetBM(r.bm)
             /\ UNCHANGED files
             /\ guards' = IF r.result \in PinOks
                          THEN guards (+) SetToBag({r.guard})
                          ELSE guards
             /\ status' = IF r.result \in PinPanics THEN "panicked" ELSE "running"
             /\ last' = PinRecord(k, r)
             /\ le' = LeIdle

ClientDrop ==
    /\ status = "running"
    /\ UNCHANGED decoderVars
    /\ le.pc \in {"idle", "done"}
    /\ \E g \in BagToSet(guards) :
         LET r == unpin(BM, g) IN
           /\ SetBM(r.bm)
           /\ UNCHANGED files
           /\ le' = LeIdle
           /\ guards' = guards (-) SetToBag({g})
           /\ status' \in DropStatus(r.result)
           /\ last' = UnpinRecord(g, r)

\* no decoder runs
UnitsIdle ==
    /\ si = DecoderIdle /\ ck = DecoderIdle /\ sb = DecoderIdle /\ tb = DecoderIdle
    /\ ts = DecoderIdle

DecodersIdle == rw = DecoderIdle /\ rc = DecoderIdle /\ pg = DecoderIdle /\ UnitsIdle

Init == InitLru /\ DecodersIdle

Next == ClientPin \/ ClientDrop

Spec == Init /\ [][Next]_vars

(***************************************************************************)
(* Claims about the LRU buffer manager                                     *)
(***************************************************************************)
Resident(f) == \E k \in DOMAIN page_pin_map : page_pin_map[k] = f

\* the live guards of the caller whose page is key k
GuardsOfKey(k) ==
    LET mine == {g \in BagToSet(guards) : <<g.space_id, g.offset>> = k}
    IN  BagCardinality([g \in mine |-> guards[g]])

\* the live guards for the page resident in frame f
LiveGuards(f) ==
    LET ks == {k \in DOMAIN page_pin_map : page_pin_map[k] = f}
    IN  IF ks = {} THEN 0 ELSE GuardsOfKey(CHOOSE k \in ks : TRUE)

\* every frame is resident and pinned
AllPinned == \A f \in Frames : lru_list[f] # 0 /\ page_pin_counter[f] > 0

\* C1: a resident page whose frame has pin count > 0 stays mapped to the same
\* frame, and that frame's bytes stay as they are, across every call (a pin of
\* any page, successful or failing, or a guard drop).
C1_PinnedPageStays ==
    [][\A k \in DOMAIN page_pin_map :
         page_pin_counter[page_pin_map[k]] > 0 =>
           /\ k \in DOMAIN page_pin_map'
           /\ page_pin_map'[k] = page_pin_map[k]
           /\ backing_store'[page_pin_map[k]] = backing_store[page_pin_map[k]]]_vars

\* a pin of another page has just evicted a victim while an older page was
\* pinned and stayed
C1_Witness ==
    /\ last.op = "pin" /\ last.result = "loaded" /\ last.evicted # NoKey
    /\ \E k \in DOMAIN page_pin_map :
         /\ k # last.key
         /\ page_pin_counter[page_pin_map[k]] > 0
         /\ lru_list[page_pin_map[k]] < lru_list[last.frame]

\* C2: the pin counter of every frame is the number of live guards for the page
\* resident in it (0 for a frame with no resident page), and no guard drop ever
\* found the counter at zero or the page gone from the directory.
C2_CounterIsLiveGuards ==
    /\ \A f \in Frames : page_pin_counter[f] = LiveGuards(f)
    /\ \A g \in BagToSet(guards) : <<g.space_id, g.offset>> \in DOMAIN page_pin_map
    /\ last.result \notin {"underflow", "panic_not_pinned"}

\* one of two guards of a page has been dropped, the other is live, and another
\* page is resident with no guard
C2_Witness ==
    /\ last.op = "unpin" /\ last.result = "ok"
    /\ page_pin_counter[last.frame] = 1 /\ LiveGuards(last.frame) = 1
    /\ \E f \in Frames : Resident(f) /\ page_pin_counter[f] = 0

\* C3: a pin that returns an error gives no guard, leaves every pin counter as
\* it was, and leaves the requested key out of the directory.
C3_FailedPinHoldsNothing ==
    [][(last'.op = "pin" /\ last'.result \in PinErrors) =>
         /\ guards' = guards
         /\ page_pin_counter' = page_pin_counter
         /\ last'.key \notin DOMAIN page_pin_map']_vars

\* a pin has failed with PageNotFound after evicting a victim, other pages
\* being pinned
C3_Witness ==
    /\ last.op = "pin" /\ last.result = "page_not_found" /\ last.evicted # NoKey
    /\ \E f \in Frames : page_pin_counter[f] > 0

\* C4: the directory never holds more entries than there are frames (at most
\* LRU_PAGE_COUNT), and no two resident pages share a frame.
C4_ResidentBounded ==
    /\ Cardinality(DOMAIN page_pin_map) <= FrameCount
    /\ FrameCount <= LRU_PAGE_COUNT
    /\ \A k1, k2 \in DOMAIN page_pin_map :
         page_pin_map[k1] = page_pin_map[k2] => k1 = k2

\* every frame is resident and a further page has just been loaded by eviction
C4_Witness ==
    /\ Cardinality(DOMAIN page_pin_map) = FrameCount
    /\ last.op = "pin" /\ last.result = "loaded" /\ last.evicted # NoKey

\* how a pin of a non-resident page must end when every frame is pinned
FullPinResult(io) ==
    IF io = "open_err" THEN "io_open"
    ELSE IF io = "seek_err" THEN "io_seek"
    ELSE "panic_too_many"

\* C7 (as stated): with every frame resident and pinned, a pin of a page that
\* is not resident ends with 'pin too many pages', gives no guard and evicts
\* nothing.
C7_Original ==
    AllPinned =>
      \A k \in Keys \ DOMAIN page_pin_map, t \in Times, io \in IoOutcomes :
        \A img \in files[k] :
          LET r == pin(BM, k, t, io, img) IN
            r.result = "panic_too_many" /\ r.guard = NoGuard /\ r.bm = BM

\* C7 (amended): with every frame resident and pinned, a pin of a page that is
\* not resident ends with the I/O error when the tablespace file cannot be
\* opened or positioned and with 'pin too many pages' otherwise; in both cases
\* it gives no guard and changes nothing in the manager.
C7_FullPinFails ==
    AllPinned =>
      \A k \in Keys \ DOMAIN page_pin_map, t \in Times, io \in IoOutcomes :
        \A img \in files[k] :
          LET r == pin(BM, k, t, io, img) IN
            r.result = FullPinResult(io) /\ r.guard = NoGuard /\ r.bm = BM

\* a pin has just died with 'pin too many pages', all frames still pinned
C7_Witness ==
    /\ last.op = "pin" /\ last.result = "panic_too_many"
    /\ AllPinned
    /\ last.key \notin DOMAIN page_pin_map

(***************************************************************************)
(* Row::load_extern over the LRU manager: table/row.rs                     *)
(***************************************************************************)
ExternPages == {0, 1}
ExternLengths == 0..MaxExternLen

\* (mutant) a return that drops nothing
HeldGuardsForgotten(l) == <<>>

\* the guards a call of load_extern holds, in the order a return drops them
HeldGuards(l) == SelectSeq(<<l.data, l.first>>, LAMBDA g : g # NoGuard)

\* PageGuard::drop for each guard of a sequence
RECURSIVE DropAll(_, _, _)
DropAll(bm, gs, rec) ==
    IF gs = <<>>
    THEN [bm |-> bm, result |-> "ok", last |-> rec]
    ELSE LET u == unpin(bm, Head(gs)) IN
         IF u.result = "ok"
         THEN DropAll(u.bm, Tail(gs), UnpinRecord(Head(gs), u))
         ELSE [bm |-> u.bm, result |-> u.result, last |-> UnpinRecord(Head(gs), u)]

\* load_extern returns `result` holding the guards of l
LeReturn(bm, l, result, rec) ==
    LET d == DropAll(bm, HeldGuards(l), rec) IN
    /\ SetBM(d.bm)
    /\ status' \in DropStatus(d.result)
    /\ le' = LeReturned(l, result)
    /\ last' = d.last

\* load_extern panics
LePanic(bm, l, result, rec) ==
    /\ SetBM(bm)
    /\ status' = "panicked"
    /\ le' = [l EXCEPT !.result = result]
    /\ last' = rec

\* row.rs:141-156: the pin of the first page and the decoding of its header
LoadExternCall ==
    /\ status = "running"
    /\ UNCHANGED decoderVars
    /\ le.pc \in {"idle", "done"}
    /\ \E pn \in ExternPages, len \in ExternLengths :
        LET k == <<1, pn>> IN
        \E io \in IoChoices(BM, k) :
         \E img \in ImageChoices(BM, k, io) :
          \E t \in ClockChoices(BM, k, io, img) :
            LET r == pin(BM, k, t, io, img)
                l == [LeIdle EXCEPT !.page_number = pn, !.length = len,
                                    !.saved = page_pin_counter]
                held == [l EXCEPT !.first = r.guard]
                page == r.bm.backing_store[r.frame]
            IN
            /\ UNCHANGED <<files, guards>>
            /\ IF r.result \in PinPanics
               THEN LePanic(r.bm, l, r.result, PinRecord(k, r))
               ELSE IF r.result \in PinErrors
               THEN LeReturn(r.bm, l, r.result, PinRecord(k, r))
               ELSE IF page.offset # pn
               THEN LeReturn(r.bm, held, "invalid_page", PinRecord(k, r))
               ELSE IF page.page_type # "LobFirst"
               THEN LeReturn(r.bm, held, "invalid_page_type", PinRecord(k, r))
               ELSE /\ SetBM(r.bm)
                    /\ status' = "running"
                    /\ last' = PinRecord(k, r)
                    /\ le' = [held EXCEPT
                                !.pc = "walk",
                                !.node_location = LobBody(page.body).first_node]

\* row.rs:158 and 188-193: the list has ended
LoadExternFinish ==
    /\ status = "running"
    /\ UNCHANGED decoderVars
    /\ le.pc = "walk"
    /\ is_null(le.node_location)
    /\ UNCHANGED <<files, guards>>
    /\ LeReturn(BM, le, IF le.filled < le.length THEN "read_incomplete" ELSE "ok",
                last)

\* the key of the page an index entry names
NodeKey(l, node) == <<l.first.space_id, node.page_number>>

\* row.rs:158-176 and 182-185: one index entry, up to the read of the first
\* page's own bytes or the pin of the entry's data page
LoadExternEntry ==
    /\ status = "running"
    /\ UNCHANGED decoderVars
    /\ le.pc = "walk"
    /\ ~is_null(le.node_location)
    /\ UNCHANGED <<files, guards>>
    /\ LET first_page == backing_store[le.first.frame]
           decoded == EntryAt(first_page, le.node_location.offset)
           node == decoded.entry
       IN
       IF LobBody(first_page.body).first_node.page_number # first_page.offset
       THEN LePanic(BM, le, "panic_assumption", last)
       ELSE IF decoded.kind = "panic_slice"
       THEN LePanic(BM, le, "panic_slice", last)
       ELSE IF decoded.kind = "err"
       THEN LeReturn(BM, le, "entry_error", last)
       ELSE IF node.page_number = le.page_number
       THEN LET rd == LobFirstRead(first_page, le.page_offset, le.length - le.filled) IN
            IF rd.kind # "ok"
            THEN LePanic(BM, le, rd.kind, last)
            ELSE /\ UNCHANGED <<backing_store, page_pin_counter, page_pin_map,
                                lru_list, status, last>>
                 /\ le' = [le EXCEPT
                             !.turn = 1 - @,
                             !.filled = @ + rd.n,
                             !.page_offset = saturating_sub(@, rd.n),
                             !.node_location = node.next]
       ELSE LET k == NodeKey(le, node) IN
            \E io \in IoChoices(BM, k) :
             \E img \in ImageChoices(BM, k, io) :
              \E t \in ClockChoices(BM, k, io, img) :
                LET r == pin(BM, k, t, io, img) IN
                IF r.result \in PinPanics
                THEN LePanic(r.bm, le, r.result, PinRecord(k, r))
                ELSE IF r.result \in PinErrors
                THEN LeReturn(r.bm, le, r.result, PinRecord(k, r))
                ELSE /\ SetBM(r.bm)
                     /\ status' = "running"
                     /\ last' = PinRecord(k, r)
                     /\ le' = [le EXCEPT !.pc = "data", !.data = r.guard,
                                         !.node = node, !.turn = 1 - @]

\* (mutant) the guard of a data page outlives its turn of the loop
drop_page_guard_never(bm, g, rec) == [bm |-> bm, result |-> "ok", last |-> rec]

\* row.rs:176-182: page_guard goes out of scope at the end of the else block
drop_page_guard(bm, g, rec) == DropAll(bm, <<g>>, rec)

\* row.rs:177-185: the data page is decoded and read, and its guard dropped
LoadExternData ==
    /\ status = "running"
    /\ UNCHANGED decoderVars
    /\ le.pc = "data"
    /\ UNCHANGED <<files, guards>>
    /\ LET data_page == backing_store[le.data.frame] IN
       IF data_page.page_type # "LobData"
       THEN LeReturn(BM, le, "invalid_page_type", last)
       ELSE LET rd == LobDataRead(data_page, le.page_offset, le.length - le.filled) IN
            IF rd.kind # "ok"
            THEN LePanic(BM, le, rd.kind, last)
            ELSE LET d == drop_page_guard(BM, le.data, last) IN
                 /\ SetBM(d.bm)
                 /\ status' \in DropStatus(d.result)
                 /\ last' = d.last
                 /\ le' = [le EXCEPT
                             !.pc = "walk",
                             !.data = NoGuard,
                             !.filled = @ + rd.n,
                             !.page_offset = saturating_sub(@, rd.n),
                             !.node_location = le.node.next,
                             !.node = LeIdle.node]

InitExtern ==
    /\ backing_store = LruNew.backing_store
    /\ page_pin_counter = LruNew.page_pin_counter
    /\ page_pin_map = LruNew.page_pin_map
    /\ lru_list = LruNew.lru_list
    /\ files \in LobFileChoices
    /\ guards = EmptyBag
    /\ status = "running"
    /\ last = [op |-> "new", key |-> NoKey, result |-> "ok", frame |-> NoFrame,
               evicted |-> NoKey]
    /\ le = LeIdle
    /\ DecodersIdle

NextExtern ==
    \/ ClientPin
    \/ ClientDrop
    \/ LoadExternCall
    \/ LoadExternFinish
    \/ LoadExternEntry
    \/ LoadExternData

SpecExtern == InitExtern /\ [][NextExtern]_vars

\* the pins load_extern holds on frame f
LeHeld(f) ==
    (IF le.first # NoGuard /\ le.first.frame = f THEN 1 ELSE 0)
  + (IF le.data # NoGuard /\ le.data.frame = f THEN 1 ELSE 0)

\* C5: whenever load_extern has returned, with the blob or with any error, no
\* pin it took is left: each frame's pin count is what it was when the call
\* began, which is the number of guards its caller holds.
C5_LoadExternReleasesPins ==
    le.pc = "done" =>
      /\ page_pin_counter = le.saved
      /\ \A f \in Frames : page_pin_counter[f] = LiveGuards(f)

\* load_extern has returned an error after a data page was pinned, while the
\* caller holds a guard of its own
C5_Witness ==
    /\ le.pc = "done"
    /\ le.result = "invalid_page_type"
    /\ le.filled > 0
    /\ last.op = "unpin"
    /\ BagCardinality(guards) > 0

\* a call of load_extern has ended: it returned, or it panicked in its own code
LeEnded ==
    \/ le.pc = "done"
    \/ status = "panicked" /\ le.result \notin ({"none"} \cup PinPanics)

\* C14 (as stated): bytes that load_extern returns are as many as the length
\* field of the extern reference, all of them read from the LOB's pages; a call
\* whose pages gave fewer bytes returns an error.
C14_Original ==
    LeEnded =>
      /\ le.result = "ok" => le.pc = "done" /\ le.filled = le.length
      /\ le.filled < le.length => le.pc = "done" /\ le.result # "ok"

\* load_extern is at an index entry whose address names a page other than the
\* first page of the LOB
EntryElsewhere ==
    /\ status = "running"
    /\ le.pc = "walk"
    /\ ~is_null(le.node_location)
    /\ le.node_location.page_number # le.page_number

\* C24 (as stated): an index entry whose address names a page other than the
\* first page is read from that page, which load_extern pins for it, and not
\* from the bytes of the first page at that offset.
C24_Original ==
    [][EntryElsewhere =>
         /\ last'.op = "pin"
         /\ last'.key = <<le.first.space_id, le.node_location.page_number>>]_vars

\* the sum of the counters c over the frames of S
RECURSIVE SumPins(_, _)
SumPins(c, S) ==
    IF S = {} THEN 0
    ELSE LET f == CHOOSE f \in S : TRUE IN c[f] + SumPins(c, S \ {f})

\* the pins the running call of load_extern has added to the manager's counters
PinsTaken == SumPins(page_pin_counter, Frames) - SumPins(le.saved, Frames)

\* C29: while load_extern runs it holds at most two pins, the first page and at
\* most one data page, and a call that began on an LRU manager with no pin held
\* never fails with 'pin too many pages'.
C29_AtMostTwoPins ==
    /\ le.pc \in {"walk", "data"} => PinsTaken <= 2
    /\ SumPins(le.saved, Frames) = 0 => le.result # "panic_too_many"

\* load_extern, begun with no pin held, holds the first page and the second
\* data page of the chain, for which the first data page was evicted
C29_Witness ==
    /\ status = "running"
    /\ le.pc = "data"
    /\ SumPins(le.saved, Frames) = 0
    /\ PinsTaken = 2
    /\ le.filled > 0
    /\ last.op = "pin" /\ last.result = "loaded" /\ last.evicted # NoKey

\* a call of load_extern goes on running: the loop of row.rs:158-187 takes its
\* next step whenever it has one
SpecExternFair ==
    /\ SpecExtern
    /\ WF_vars(LoadExternEntry)
    /\ WF_vars(LoadExternData)
    /\ WF_vars(LoadExternFinish)

\* load_extern is in its walk over the index entries
LeWalking == status = "running" /\ le.pc \in {"walk", "data"}

\* C30 (as stated): load_extern terminates for every content of the first
\* page: a call that is walking the index entries returns or panics in the
\* end, also when the next pointers form a cycle or the buffer is full.
C30_Original == LeWalking ~> ~LeWalking

(***************************************************************************)
(* Rows: table/field.rs, table/blob_header.rs, table/row.rs                *)
(* Field indices are 1-based here and 0-based in the source.               *)
(***************************************************************************)
\* FieldType, with the byte width of its integers
TinyInt(signed) == [kind |-> "TinyInt", signed |-> signed, len |-> 1, charset_max_len |-> 1]
SmallInt(signed) == [kind |-> "SmallInt", signed |-> signed, len |-> 2, charset_max_len |-> 1]
Text(len, charset_max_len) ==
    [kind |-> "Text", signed |-> FALSE, len |-> len, charset_max_len |-> charset_max_len]

\* FieldType::is_variable
is_variable(t) == t.kind = "Text"

\* FieldType::max_len
max_len(t) == IF t.kind = "Text" THEN t.len * t.charset_max_len ELSE t.len

\* Field::new
Field(name, t, nullable) == [name |-> name, field_type |-> t, nullable |-> nullable]

\* FieldValue
UnsignedInt(n) == [kind |-> "UnsignedInt", n |-> n, s |-> <<>>]
SignedInt(n) == [kind |-> "SignedInt", n |-> n, s |-> <<>>]
String(s) == [kind |-> "String", n |-> 0, s |-> s]
Null == [kind |-> "Null", n |-> 0, s |-> <<>>]
Skipped == [kind |-> "Skipped", n |-> 0, s |-> <<>>]
\* no value: the decoding panicked
NoValue == [kind |-> "panic", n |-> 0, s |-> <<>>]

\* the tables rows are decoded for
TableDefinitions ==
    { [cluster_columns |-> <<Field("id", TinyInt(FALSE), FALSE)>>,
       data_columns |-> <<Field("doc", Text(16383, 4), TRUE),
                          Field("n", TinyInt(FALSE), FALSE)>>],
      [cluster_columns |-> <<Field("id", TinyInt(FALSE), FALSE)>>,
       data_columns |-> <<Field("doc", Text(16383, 4), FALSE),
                          Field("note", Text(20, 1), TRUE),
                          Field("n", SmallInt(TRUE), FALSE)>>],
      [cluster_columns |-> <<Field("id", TinyInt(FALSE), FALSE)>>,
       data_columns |-> <<Field("doc1", Text(16383, 4), FALSE),
                          Field("doc2", Text(16383, 4), FALSE)>>],
      [cluster_columns |-> <<Field("id", TinyInt(FALSE), FALSE)>>,
       data_columns |-> <<Field("flag", TinyInt(FALSE), TRUE),
                          Field("n", SmallInt(TRUE), FALSE)>>],
      [cluster_columns |-> <<Field("id", TinyInt(FALSE), FALSE)>>,
       data_columns |-> <<Field("t0", Text(20, 1), TRUE), Field("t1", Text(20, 1), TRUE),
                          Field("t2", Text(20, 1), TRUE), Field("t3", Text(20, 1), TRUE),
                          Field("t4", Text(20, 1), TRUE), Field("t5", Text(20, 1), TRUE),
                          Field("t6", Text(20, 1), TRUE), Field("t7", Text(20, 1), TRUE),
                          Field("t8", Text(300, 1), TRUE)>>] }

\* td.cluster_columns.iter().chain(td.data_columns.iter())
Columns(td) == td.cluster_columns \o td.data_columns

\* the bytes of an extern reference whose length field is n
ExternBytes(space, n) == <<space, 0, 0, 1,  0, 0, 0, 0,  0, 0, 0, 96,  0, 0, 0, 0, 0, 0, 0, n>>

\* the bytes of a page from a record's origin on: the key, the hidden columns,
\* two extern references, four characters; the rest of the page is zero
Payload(n) ==
    <<7>> \o [i \in 1..HIDDEN_COLUMNS_LEN |-> 0] \o ExternBytes(0, n) \o ExternBytes(5, 1)
          \o <<65, 66, 32, 67>>

\* the bytes the model chooses below a record header
PreBytes == {0, 20, 129, 192}

\* the records rows are decoded from: the origin, the bytes below the header
\* (nearest first) and the bytes from the origin on
Records ==
    [offset : {120}, pre : [1..MaxPreLen -> PreBytes],
     payload : {Payload(n) : n \in 0..MaxExternLen}]

\* r.buf[p]
Buf(r, p) ==
    IF p >= r.offset
    THEN IF p - r.offset < Len(r.payload) THEN r.payload[p - r.offset + 1] ELSE 0
    ELSE LET k == r.offset - RECORD_HEADER_FIXED_LENGTH - p IN
         IF k \in 1..Len(r.pre) THEN r.pre[k] ELSE 0

\* a byte slice: the page from offset off on, or bytes of their own
PageView(r, off) == [page |-> TRUE, r |-> r, off |-> off, bytes |-> <<>>]
BytesView(bytes) == [page |-> FALSE, r |-> <<>>, off |-> 0, bytes |-> bytes]

ViewLen(v) == IF v.page THEN FIL_PAGE_SIZE - v.off ELSE Len(v.bytes)

\* v[i], i from 0
ViewByte(v, i) == IF v.page THEN Buf(v.r, v.off + i) ELSE v.bytes[i + 1]

\* v[from..from + n]
ViewTake(v, from, n) == [i \in 1..n |-> ViewByte(v, from + i - 1)]

\* u32::from_be_bytes, u64::from_be_bytes
RECURSIVE from_be_bytes(_)
from_be_bytes(bytes) ==
    IF bytes = <<>> THEN 0
    ELSE from_be_bytes(SubSeq(bytes, 1, Len(bytes) - 1)) * 256 + bytes[Len(bytes)]

\* ExternReference::from_bytes on at least 20 bytes; the three flag bits of the
\* length field are the top bits of its first byte
ExternReference(v) ==
    LET l == ViewTake(v, 12, 8) IN
    [space_id |-> from_be_bytes(ViewTake(v, 0, 4)),
     page_number |-> from_be_bytes(ViewTake(v, 4, 4)),
     offset |-> from_be_bytes(ViewTake(v, 8, 4)),
     owner |-> l[1] < 128,
     inherit |-> (l[1] \div 64) % 2 = 1,
     length |-> from_be_bytes(<<l[1] % 16>> \o SubSeq(l, 2, 8))]

\* 2^n
RECURSIVE Pow2(_)
Pow2(n) == IF n = 0 THEN 1 ELSE 2 * Pow2(n - 1)

ParseResult(kind, value, len) == [kind |-> kind, value |-> value, len |-> len]

\* Field::parse_uint: the value, or -1 for the panic of its second assert
parse_uint(v, len) ==
    IF ViewLen(v) < len THEN -1 ELSE from_be_bytes(ViewTake(v, 0, len))

\* Field::parse_signed_int on the value parse_uint returned
parse_signed_int(uint, len) ==
    LET sign == Pow2(len * 8 - 1)
        num == IF uint >= sign THEN uint - sign ELSE uint + sign
    IN  IF num >= sign THEN -(Pow2(len * 8) - num) ELSE num

\* Field::parse_int_field
parse_int_field(v, len, signed) ==
    LET uint == parse_uint(v, len) IN
    IF uint < 0 THEN ParseResult("panic", NoValue, 0)
    ELSE IF signed THEN ParseResult("ok", SignedInt(parse_signed_int(uint, len)), len)
    ELSE ParseResult("ok", UnsignedInt(uint), len)

\* String::from_utf8 accepts the bytes: the inputs hold ASCII bytes and the
\* byte 0xFF, which no UTF-8 text contains
Utf8Valid(bytes) == \A i \in 1..Len(bytes) : bytes[i] < 128

IsWhitespace(b) == b \in {9, 10, 11, 12, 13, 32}

\* str::trim_end
RECURSIVE trim_end(_)
trim_end(bytes) ==
    IF bytes # <<>> /\ IsWhitespace(bytes[Len(bytes)])
    THEN trim_end(SubSeq(bytes, 1, Len(bytes) - 1))
    ELSE bytes

\* Some(length), None
Some(n) == [some |-> TRUE, n |-> n]
None == [some |-> FALSE, n |-> 0]

\* Field::parse for the integer and Text types
parse(f, v, length_opt) ==
    LET t == f.field_type IN
    IF t.kind # "Text" THEN parse_int_field(v, t.len, t.signed)
    ELSE IF ~length_opt.some THEN ParseResult("ok", Null, 0)
    ELSE IF length_opt.n > max_len(t) THEN ParseResult("panic", NoValue, 0)
    ELSE IF length_opt.n > ViewLen(v) THEN ParseResult("panic", NoValue, 0)
    ELSE IF ~Utf8Valid(ViewTake(v, 0, length_opt.n)) THEN ParseResult("panic", NoValue, 0)
    ELSE ParseResult("ok", String(trim_end(ViewTake(v, 0, length_opt.n))), length_opt.n)

\* the nullable fields before field idx: its bit in the null bitmap
NullBit(td, idx) == Cardinality({i \in 1..(idx - 1) : Columns(td)[i].nullable})

\* row.rs:49-51: the i-th byte of byte_stream, i from 1
StreamByte(r, i) == Buf(r, r.offset - RECORD_HEADER_FIXED_LENGTH - i)

\* usize::div_ceil
div_ceil(a, b) == (a + b - 1) \div b

\* (mutant) the bits of a byte counted from the most significant one
null_bit_from_msb(byte, bit) == (byte \div Pow2(7 - bit)) % 2 = 1

\* row.rs:73: ((byte >> bit) & 1) != 0
null_bit(byte, bit) == (byte \div Pow2(bit)) % 2 = 1

\* row.rs:69-81: the loops over the bitmap bytes and their bits; `bytes` is the
\* number of bytes taken from byte_stream
RECURSIVE NullBitsLoop(_, _, _, _, _, _)
NullBitsLoop(r, num_null_flag_bytes, i, bit, null_bits_remain, null_bits) ==
    IF i >= num_null_flag_bytes
    THEN [ok |-> TRUE, null_bits |-> null_bits, bytes |-> i]
    ELSE IF bit = 8
    THEN NullBitsLoop(r, num_null_flag_bytes, i + 1, 0, null_bits_remain, null_bits)
    ELSE LET pushed == Append(null_bits, null_bit(StreamByte(r, i + 1), bit)) IN
         IF null_bits_remain - 1 = 0
         THEN IF i = num_null_flag_bytes - 1
              THEN NullBitsLoop(r, num_null_flag_bytes, i + 1, 0, 0, pushed)
              ELSE [ok |-> FALSE, null_bits |-> pushed, bytes |-> i + 1]
         ELSE NullBitsLoop(r, num_null_flag_bytes, i, bit + 1, null_bits_remain - 1, pushed)

\* row.rs:56-81: null_field_map.len() bits are read from div_ceil(len, 8) bytes
NullBits(r, td) ==
    LET len == Cardinality({i \in 1..Len(Columns(td)) : Columns(td)[i].nullable})
    IN  NullBitsLoop(r, div_ceil(len, 8), 0, 0, len, <<>>)

\* row.rs:56-86: the null map
NullMap(r, td) ==
    LET nullable == {i \in 1..Len(Columns(td)) : Columns(td)[i].nullable} IN
    [i \in nullable |-> NullBits(r, td).null_bits[NullBit(td, i) + 1]]

\* (mutant) the second length byte is read whatever the field's max_len
two_length_bytes_any(field, len) == (len \div 128) % 2 = 1

\* row.rs:113-115: max_len() > 255 and (len & 0x80) != 0
two_length_bytes(field, len) ==
    max_len(field.field_type) > 255 /\ (len \div 128) % 2 = 1

\* row.rs:88-124: the loop over the fields; pos is the number of bytes taken
\* from byte_stream, `taken` the number each field took
RECURSIVE LengthLoop(_, _, _, _, _, _)
LengthLoop(r, td, null_map, idx, pos, acc) ==
    IF idx > Len(Columns(td)) THEN acc
    ELSE LET field == Columns(td)[idx] IN
    IF ~is_variable(field.field_type) \/ (field.nullable /\ null_map[idx])
    THEN LengthLoop(r, td, null_map, idx + 1, pos, acc)
    ELSE LET len == StreamByte(r, pos + 1)
             two == two_length_bytes(field, len)
             tmp == len * 256 + StreamByte(r, pos + 2)
         IN  LengthLoop(r, td, null_map, idx + 1, IF two THEN pos + 2 ELSE pos + 1,
               [field_len_map |-> [i \in DOMAIN acc.field_len_map \cup {idx} |->
                                     IF i = idx THEN (IF two THEN tmp % 16384 ELSE len)
                                     ELSE acc.field_len_map[i]],
                extern_fields |-> IF two /\ (tmp \div 16384) % 2 = 1
                                  THEN acc.extern_fields \cup {idx}
                                  ELSE acc.extern_fields,
                taken |-> [i \in DOMAIN acc.taken \cup {idx} |->
                             IF i = idx THEN (IF two THEN 2 ELSE 1) ELSE acc.taken[i]]])

\* row.rs:88-124 after the null bitmap
LengthMap(r, td) ==
    LengthLoop(r, td, NullMap(r, td), 1, NullBits(r, td).bytes,
               [field_len_map |-> <<>>, extern_fields |-> {}, taken |-> <<>>])

\* Row::try_from_record_and_table
try_from_record_and_table(r, td) ==
    LET null_map == NullMap(r, td)
        loop == LengthMap(r, td)
    IN  [td |-> td, null_map |-> null_map, field_len_map |-> loop.field_len_map,
         extern_fields |-> loop.extern_fields, record |-> r]

\* what load_extern returned: Err, or Ok with the bytes
ExternErr == [ok |-> FALSE, bytes |-> <<>>]
ExternOk(bytes) == [ok |-> TRUE, bytes |-> bytes]

\* the bytes a recovered LOB is made of
ExternFills == {72, 32, 255}

\* the buffer managers a row is decoded with
BufferManagers == {"dummy", "lru"}

\* Row::parse_extern_field
parse_extern_field(f, extern_header, ext) ==
    IF ext.ok
    THEN parse(f, BytesView(ext.bytes), Some(extern_header.length))
    ELSE ParseResult("ok", Skipped, 0)

\* (mutant) an extern field that failed takes no bytes of the record
ExternFieldShort(f, extern_header, len, ext) ==
    LET x == parse_extern_field(f, extern_header, ext) IN
    ParseResult(x.kind, x.value, IF ext.ok THEN len ELSE 0)

\* row.rs:229-232: the value of an extern field and the bytes it takes
ExternField(f, extern_header, len, ext) ==
    LET x == parse_extern_field(f, extern_header, ext) IN
    ParseResult(x.kind, x.value, len)

\* the field is stored externally and its reference can be read at off
ReachesExtern(row, idx, off) ==
    /\ idx \in row.extern_fields
    /\ row.field_len_map[idx] = EXTERN_HEADER_LEN
    /\ off + EXTERN_HEADER_LEN <= FIL_PAGE_SIZE

\* Row::parse_single_field on record.buf[off..], with what load_extern returns
parse_single_field(row, f, off, idx, ext) ==
    IF off > FIL_PAGE_SIZE THEN ParseResult("panic", NoValue, 0)
    ELSE IF idx \in row.extern_fields
    THEN IF ~ReachesExtern(row, idx, off) THEN ParseResult("panic", NoValue, 0)
         ELSE ExternField(f, ExternReference(PageView(row.record, off)),
                          row.field_len_map[idx], ext)
    ELSE parse(f, PageView(row.record, off),
               IF idx \in DOMAIN row.field_len_map
               THEN Some(row.field_len_map[idx]) ELSE None)

\* what load_extern can return for the field at off: an error with every
\* buffer manager, and the LOB's bytes with one that reads files
ExternChoices(bm, row, idx, off) ==
    IF ~ReachesExtern(row, idx, off) THEN {ExternErr}
    ELSE LET length == ExternReference(PageView(row.record, off)).length IN
         IF bm = "dummy" \/ length > MaxExternLen THEN {ExternErr}
         ELSE {ExternErr} \cup {ExternOk([i \in 1..length |-> b]) : b \in ExternFills}

\* the same call, had a recovery that failed succeeded
Recovered(row, idx, off, ext) ==
    IF ext.ok \/ ~ReachesExtern(row, idx, off) THEN ext
    ELSE LET length == ExternReference(PageView(row.record, off)).length IN
         IF length > MaxExternLen THEN ext ELSE ExternOk([i \in 1..length |-> 72])

\* a record and a table before Row::try_from_record_and_table
RowInput(bm, td, r) ==
    [pc |-> "record", bm |-> bm, td |-> td, record |-> r,
     row |-> [td |-> td, null_map |-> <<>>, field_len_map |-> <<>>,
              extern_fields |-> {}, record |-> r],
     idx |-> 1, current_offset |-> r.offset, values |-> <<>>, consumed |-> <<>>,
     failed |-> {}, twin_offset |-> r.offset, twin_values |-> <<>>,
     bitmap_bytes |-> 0, length_bytes |-> <<>>]

InitRow ==
    /\ InitLru
    /\ rc = DecoderIdle
    /\ pg = DecoderIdle
    /\ UnitsIdle
    /\ rw \in {RowInput(bm, td, r) : bm \in BufferManagers, td \in TableDefinitions,
                                     r \in Records}

\* Row::try_from_record_and_table, then the head of Row::parse_values
RowNew ==
    /\ rw.pc = "record"
    /\ UNCHANGED <<managerVars, rc, pg, unitVars>>
    /\ rw' = [rw EXCEPT
                !.row = try_from_record_and_table(rw.record, rw.td),
                !.bitmap_bytes = NullBits(rw.record, rw.td).bytes,
                !.length_bytes = LengthMap(rw.record, rw.td).taken,
                !.pc = IF Len(rw.td.cluster_columns) = 0 THEN "panicked" ELSE "parse"]

\* row.rs:253: the hidden columns follow the last cluster column
AfterHidden(td, idx, off) ==
    IF idx = Len(td.cluster_columns) + 1 THEN off + HIDDEN_COLUMNS_LEN ELSE off

\* (mutant) a field that was skipped leaves no value
push_unless_skipped(values, value) ==
    IF value = Skipped THEN values ELSE Append(values, value)

\* row.rs:250, 261: values.push(value)
push(values, value) == Append(values, value)

\* row.rs:246-262: one turn of the loops of Row::parse_values
ParseValuesField ==
    /\ rw.pc = "parse"
    /\ rw.idx <= Len(Columns(rw.td))
    /\ UNCHANGED <<managerVars, rc, pg, unitVars>>
    /\ LET f == Columns(rw.td)[rw.idx]
           off == AfterHidden(rw.td, rw.idx, rw.current_offset)
           twin_off == AfterHidden(rw.td, rw.idx, rw.twin_offset)
       IN
       \E ext \in ExternChoices(rw.bm, rw.row, rw.idx, off) :
         LET x == parse_single_field(rw.row, f, off, rw.idx, ext)
             twin == parse_single_field(rw.row, f, twin_off, rw.idx,
                                        Recovered(rw.row, rw.idx, twin_off, ext))
         IN
         IF x.kind = "panic"
         THEN rw' = [rw EXCEPT !.pc = "panicked"]
         ELSE rw' = [rw EXCEPT
                       !.idx = @ + 1,
                       !.current_offset = off + x.len,
                       !.values = push(@, x.value),
                       !.consumed = Append(@, x.len),
                       !.failed = IF ReachesExtern(rw.row, rw.idx, off) /\ ~ext.ok
                                  THEN @ \cup {rw.idx} ELSE @,
                       !.twin_offset = twin_off + twin.len,
                       !.twin_values = Append(@, twin.value)]

\* row.rs:264: Row::parse_values returns
ParseValuesReturn ==
    /\ rw.pc = "parse"
    /\ rw.idx > Len(Columns(rw.td))
    /\ UNCHANGED <<managerVars, rc, pg, unitVars>>
    /\ rw' = [rw EXCEPT !.pc = "done"]

NextRow == RowNew \/ ParseValuesField \/ ParseValuesReturn

SpecRow == InitRow /\ [][NextRow]_vars

\* C6: every field whose extern recovery failed is Skipped in the values of
\* parse_values and took exactly 20 bytes of the record, and every other field
\* has the value it has in the run where those recoveries succeed.
C6_FailedExternSkipped ==
    rw.pc \in {"parse", "done"} =>
      \A j \in 1..Len(rw.values) :
        IF j \in rw.failed
        THEN rw.values[j] = Skipped /\ rw.consumed[j] = EXTERN_HEADER_LEN
        ELSE rw.values[j] = rw.twin_values[j]

\* parse_values has returned for a row whose extern field failed with a buffer
\* manager that could have recovered it, and a field after it holds a value
C6_Witness ==
    /\ rw.pc = "done"
    /\ rw.bm = "lru"
    /\ \E j \in rw.failed :
         /\ rw.twin_values[j].kind = "String"
         /\ \E i \in (j + 1)..Len(rw.values) : rw.values[i].kind \in {"String", "SignedInt"}

\* the value is one a field of this type decodes to
ValueFits(f, value) ==
    IF f.field_type.kind = "Text" THEN value.kind \in {"String", "Null", "Skipped"}
    ELSE value.kind = (IF f.field_type.signed THEN "SignedInt" ELSE "UnsignedInt")

\* C11: whenever parse_values returns, with either buffer manager and whether
\* or not an extern recovery failed, it returns one value for each cluster
\* column and then one for each data column: n + m values, the j-th of the
\* type of the j-th column.
C11_OneValuePerColumn ==
    rw.pc = "done" =>
      /\ Len(rw.values) = Len(rw.td.cluster_columns) + Len(rw.td.data_columns)
      /\ \A j \in 1..Len(rw.values) : ValueFits(Columns(rw.td)[j], rw.values[j])

\* parse_values has returned the values of a four-column table, one of them
\* skipped because the dummy buffer manager could not recover it
C11_Witness ==
    /\ rw.pc = "done"
    /\ rw.bm = "dummy"
    /\ rw.failed # {}
    /\ Len(rw.values) = 4
    /\ \E j \in rw.failed : rw.values[j] = Skipped

\* the null bit of field idx is set in the record's null bitmap
IsNullField(row, idx) == idx \in DOMAIN row.null_map /\ row.null_map[idx]

\* C12 (as stated): every field whose null bit is set, whatever its type, is
\* Null in the values of parse_values and takes no byte of the record.
C12_Original ==
    rw.pc \in {"parse", "done"} =>
      \A j \in 1..Len(rw.values) :
        IsNullField(rw.row, j) => rw.values[j] = Null /\ rw.consumed[j] = 0

\* the indexes of the nullable fields, in cluster-then-data order
NullableFields(td) == {i \in 1..Len(Columns(td)) : Columns(td)[i].nullable}

\* C21: for a table with k nullable fields the row takes ceil(k/8) bitmap bytes
\* downward from record offset - 6, and the null flag of the j-th nullable
\* field (j from 0) is bit j mod 8, from the least significant bit, of the byte
\* at record offset - 6 - floor(j/8); no other field has a null flag.
C21_NullBitmap ==
    rw.pc \in {"parse", "done"} =>
      LET k == Cardinality(NullableFields(rw.td))
          o == rw.record.offset
      IN  /\ rw.bitmap_bytes = (k + 7) \div 8
          /\ DOMAIN rw.row.null_map = NullableFields(rw.td)
          /\ \A i \in NullableFields(rw.td) :
               LET j == Cardinality({n \in NullableFields(rw.td) : n < i}) IN
               rw.row.null_map[i]
                 = ((Buf(rw.record, o - 6 - (j \div 8)) \div Pow2(j % 8)) % 2 = 1)

\* a row of the table with nine nullable fields: the bitmap took two bytes, the
\* ninth field (bit 0 of the second byte) is null, the eighth (bit 7 of the
\* first) is not, the third (bit 2 of the first) is
C21_Witness ==
    /\ rw.pc = "done"
    /\ rw.bitmap_bytes = 2
    /\ Cardinality(NullableFields(rw.td)) = 9
    /\ rw.row.null_map[10] /\ ~rw.row.null_map[9] /\ rw.row.null_map[4]

\* the length bytes the variable-length fields before field idx took
RECURSIVE LengthBytesBefore(_, _)
LengthBytesBefore(taken, idx) ==
    IF idx <= 1 THEN 0
    ELSE LengthBytesBefore(taken, idx - 1)
           + (IF (idx - 1) \in DOMAIN taken THEN taken[idx - 1] ELSE 0)

\* C22: after the null bitmap, going toward lower addresses, a variable-length
\* field that is null takes no length byte; one that is not null takes one
\* byte, and a second one only if its max_len is above 255 and the first byte
\* has bit 0x80 set: then its length is the low 14 bits of first << 8 | second
\* and it is external exactly when bit 0x4000 of that value is set; otherwise
\* its length is the first byte.  Fields of fixed length take none.
C22_LengthBytes ==
    rw.pc \in {"parse", "done"} =>
      \A idx \in 1..Len(Columns(rw.td)) :
        LET field == Columns(rw.td)[idx]
            at == rw.record.offset - 6 - rw.bitmap_bytes
                    - LengthBytesBefore(rw.length_bytes, idx)
            first == Buf(rw.record, at)
            second == Buf(rw.record, at - 1)
            both == first * 256 + second
        IN  IF field.field_type.kind # "Text" \/ IsNullField(rw.row, idx)
            THEN /\ idx \notin DOMAIN rw.length_bytes
                 /\ idx \notin DOMAIN rw.row.field_len_map
                 /\ idx \notin rw.row.extern_fields
            ELSE IF max_len(field.field_type) > 255 /\ first >= 128
            THEN /\ rw.length_bytes[idx] = 2
                 /\ rw.row.field_len_map[idx] = both % 16384
                 /\ idx \in rw.row.extern_fields <=> (both \div 16384) % 2 = 1
            ELSE /\ rw.length_bytes[idx] = 1
                 /\ rw.row.field_len_map[idx] = first
                 /\ idx \notin rw.row.extern_fields

\* a row with two fields of max_len above 255 whose first length bytes have
\* bit 0x80 set: the first is external (C0 ..), the second is not (81 ..)
C22_Witness ==
    /\ rw.pc \in {"parse", "done"}
    /\ \E i \in DOMAIN rw.length_bytes, j \in DOMAIN rw.length_bytes :
         /\ i < j
         /\ rw.length_bytes[i] = 2 /\ i \in rw.row.extern_fields
         /\ rw.length_bytes[j] = 2 /\ j \notin rw.row.extern_fields
         /\ rw.row.field_len_map[j] > 255

(***************************************************************************)
(* Records of an index page: page/record.rs, page/index.rs                 *)
(***************************************************************************)
\* the origin of the first user record of the pages below
UserRecordOffset == SUPREMUM_OFFSET + 14

\* the record origins whose headers the model chooses
RecordSlots == {INFIMUM_OFFSET, SUPREMUM_OFFSET, UserRecordOffset}

\* the offsets a chosen next pointer leads to: below zero, zero, the three
\* records, the end of the page, and beyond it
NextTargets == {-1, 0} \cup RecordSlots \cup {FIL_PAGE_SIZE, FIL_PAGE_SIZE + 2}

\* the five bytes of a record header: flags and owned, type and order, next
RawHeader(owned_flags, type_order, next) ==
    [owned_flags |-> owned_flags, type_order |-> type_order, next |-> next]

\* the 16-bit two's complement of the step from origin o to target t
DeltaTo(o, t) == (t - o + U16_MAX + 1) % (U16_MAX + 1)

\* the headers the model chooses for the record at origin o
SlotHeaders(o) ==
    LET flags == IF o = UserRecordOffset THEN {0, 64} ELSE {1}
        types == IF o = INFIMUM_OFFSET THEN {2}
                 ELSE IF o = SUPREMUM_OFFSET THEN {8 + 3, 8 + 0}
                 ELSE {16 + 0, 16 + 3, 16 + 5}
    IN  {RawHeader(f, t, DeltaTo(o, n)) : f \in flags, t \in types, n \in NextTargets}

\* the index pages records are read from: the raw heap-record field of the
\* index header and the record headers; every other byte is zero
IndexPages ==
    [heap : {32768 + 2, 32768 + 3},
     slots : {h \in [RecordSlots -> UNION {SlotHeaders(o) : o \in RecordSlots}] :
                \A o \in RecordSlots : h[o] \in SlotHeaders(o)}]

\* buffer[p] of an index page
PageByte(page, p) ==
    IF \E o \in RecordSlots : p \in (o - RECORD_HEADER_FIXED_LENGTH)..(o - 1)
    THEN LET o == CHOOSE o \in RecordSlots : p \in (o - RECORD_HEADER_FIXED_LENGTH)..(o - 1)
             h == page.slots[o]
         IN  CASE p = o - 5 -> h.owned_flags
               [] p = o - 4 -> h.type_order \div 256
               [] p = o - 3 -> h.type_order % 256
               [] p = o - 2 -> h.next \div 256
               [] OTHER -> h.next % 256
    ELSE IF p = FIL_HEADER_SIZE + INDEX_HEADER_HEAP_FIELD THEN page.heap \div 256
    ELSE IF p = FIL_HEADER_SIZE + INDEX_HEADER_HEAP_FIELD + 1 THEN page.heap % 256
    ELSE 0

\* IndexHeader::from_bytes: number_of_heap_records
number_of_heap_records(page) ==
    (PageByte(page, FIL_HEADER_SIZE + INDEX_HEADER_HEAP_FIELD) * 256
       + PageByte(page, FIL_HEADER_SIZE + INDEX_HEADER_HEAP_FIELD + 1)) % 32768

\* (mutant) the two bytes taken as an unsigned number
i16_from_be_bytes_unsigned(hi, lo) == hi * 256 + lo

\* i16::from_be_bytes
i16_from_be_bytes(hi, lo) ==
    IF hi * 256 + lo >= 32768 THEN hi * 256 + lo - (U16_MAX + 1) ELSE hi * 256 + lo

\* u16::checked_add_signed
checked_add_signed(a, d) ==
    IF a + d < 0 \/ a + d > U16_MAX THEN None ELSE Some(a + d)

\* RecordType::try_from_primitive, "" for a value outside the enum
RecordType(n) ==
    CASE n = 0 -> "Conventional"
      [] n = 1 -> "NodePointer"
      [] n = 2 -> "Infimum"
      [] n = 3 -> "Supremum"
      [] OTHER -> ""

NoHeader ==
    [info_flags |-> 0, num_records_owned |-> 0, order |-> 0, record_type |-> "",
     next_record_offset |-> None]

HeaderResult(kind, header) == [kind |-> kind, header |-> header]

\* RecordHeader::try_from_offset: "ok", "err", or "panic" where an assert, a
\* subtraction below zero or an index beyond the buffer stops the process
RecordHeader_try_from_offset(page, offset) ==
    LET owned_flags == PageByte(page, offset - 5)
        record_type_order == PageByte(page, offset - 4) * 256 + PageByte(page, offset - 3)
    IN
    IF ~(offset < U16_MAX) THEN HeaderResult("panic", NoHeader)
    ELSE IF offset < 4 \/ offset - 3 >= FIL_PAGE_SIZE THEN HeaderResult("panic", NoHeader)
    ELSE IF offset < 5 THEN HeaderResult("panic", NoHeader)
    ELSE IF (owned_flags \div 16) \div 4 # 0 THEN HeaderResult("err", NoHeader)
    ELSE IF RecordType(record_type_order % 8) = "" THEN HeaderResult("err", NoHeader)
    ELSE IF offset - 1 >= FIL_PAGE_SIZE THEN HeaderResult("panic", NoHeader)
    ELSE HeaderResult("ok",
           [info_flags |-> owned_flags \div 16,
            num_records_owned |-> owned_flags % 16,
            order |-> record_type_order \div 8,
            record_type |-> RecordType(record_type_order % 8),
            next_record_offset |->
              checked_add_signed(offset, i16_from_be_bytes(PageByte(page, offset - 2),
                                                           PageByte(page, offset - 1)))])

NoRecord == [header |-> NoHeader, offset |-> 0]

\* Record::try_from_offset
Record_try_from_offset(page, offset) ==
    LET h == RecordHeader_try_from_offset(page, offset) IN
    [kind |-> h.kind,
     record |-> IF h.kind = "ok" THEN [header |-> h.header, offset |-> offset]
                ELSE NoRecord]

\* record.rs:92-98: what Record::next makes of the decoding of the next record
NextOf(r) ==
    IF r.kind = "ok" THEN [kind |-> "some", record |-> r.record]
    ELSE IF r.kind = "err" THEN [kind |-> "none", record |-> NoRecord]
    ELSE [kind |-> "panic", record |-> NoRecord]

\* Record::next
next(page, record) ==
    IF record.header.record_type = "Supremum"
    THEN [kind |-> "none", record |-> NoRecord]
    ELSE IF ~record.header.next_record_offset.some
    THEN [kind |-> "panic", record |-> NoRecord]
    ELSE NextOf(Record_try_from_offset(page, record.header.next_record_offset.n))

\* no call of Record::next yet
NoCall == [called |-> FALSE, from |-> NoRecord, result |-> "none"]

\* an index page before its traversal
RecordInput(page) ==
    [pc |-> "page", page |-> page, cur |-> NoRecord, steps |-> 0, last |-> NoCall]

InitRecord ==
    /\ InitLru
    /\ rw = DecoderIdle
    /\ pg = DecoderIdle
    /\ UnitsIdle
    /\ rc \in {RecordInput(page) : page \in IndexPages}

\* IndexPage::infimum: the record at the infimum's origin
RecordInfimum ==
    /\ rc.pc = "page"
    /\ UNCHANGED <<managerVars, rw, pg, unitVars>>
    /\ LET r == Record_try_from_offset(rc.page, INFIMUM_OFFSET) IN
       rc' = [rc EXCEPT !.pc = IF r.kind = "ok" THEN "iter"
                                ELSE IF r.kind = "err" THEN "end" ELSE "panicked",
                        !.cur = r.record]

\* page_explorer.rs:112-137: one more call of Record::next in a traversal
RecordNext ==
    /\ rc.pc = "iter"
    /\ rc.steps < MaxSteps
    /\ UNCHANGED <<managerVars, rw, pg, unitVars>>
    /\ LET n == next(rc.page, rc.cur) IN
       rc' = [rc EXCEPT
                !.pc = IF n.kind = "some" THEN "iter"
                       ELSE IF n.kind = "none" THEN "end" ELSE "panicked",
                !.cur = IF n.kind = "some" THEN n.record ELSE rc.cur,
                !.steps = @ + 1,
                !.last = [called |-> TRUE, from |-> rc.cur, result |-> n.kind]]

NextRecord == RecordInfimum \/ RecordNext

SpecRecord == InitRecord /\ [][NextRecord]_vars

\* C8 (as claimed): a traversal from the infimum makes at most
\* number_of_heap_records + 2 calls of Record::next, does not panic, and ends
\* at a Supremum record.
C8_Original ==
    rc.pc # "idle" =>
      /\ rc.steps <= number_of_heap_records(rc.page) + 2
      /\ rc.pc # "panicked"
      /\ rc.pc = "end" => rc.cur.header.record_type = "Supremum"

\* the computed next offset of a record overflows 16 bits, is zero, or leaves
\* no room for a 5-byte header inside the page body
BadNextOffset(h) ==
    \/ ~h.next_record_offset.some
    \/ h.next_record_offset.n = 0
    \/ h.next_record_offset.n - RECORD_HEADER_FIXED_LENGTH < FIL_HEADER_SIZE
    \/ h.next_record_offset.n > FIL_PAGE_SIZE - FIL_TRAILER_SIZE

\* C9 (as claimed): Record::next of a non-Supremum record whose computed next
\* offset overflows, is zero or leaves no room for a header returns None and
\* does not panic, and Record::next of a Supremum record returns None.
C9_Original ==
    (rc.pc # "idle" /\ rc.last.called) =>
      /\ (rc.last.from.header.record_type # "Supremum"
            /\ BadNextOffset(rc.last.from.header)) => rc.last.result = "none"
      /\ rc.last.from.header.record_type = "Supremum" => rc.last.result = "none"

\* the signed big-endian 16-bit value at body[o-2..o]
StatedDelta(page, o) ==
    LET v == PageByte(page, o - 2) * 256 + PageByte(page, o - 1)
    IN  IF v >= 32768 THEN v - 65536 ELSE v

\* the header of record r holds the fields the claim reads from the five bytes
\* below its origin, next offset apart
StatedHeaderFields(page, r) ==
    LET o == r.offset
        v == PageByte(page, o - 4) * 256 + PageByte(page, o - 3)
    IN  /\ r.header.info_flags = PageByte(page, o - 5) \div 16
        /\ r.header.num_records_owned = PageByte(page, o - 5) % 16
        /\ r.header.order = v \div 8
        /\ r.header.record_type = RecordType(v % 8)

\* a record has been decoded and is the current one of the traversal
RecordDecoded == rc.pc \in {"iter", "end", "panicked"} /\ rc.cur # NoRecord

\* C23 (as stated): every decoded header has its fields from the five bytes
\* below the origin o and the next offset o + delta, and Record::next of a
\* record that is not the Supremum is the record at that offset.
C23_Original ==
    /\ RecordDecoded =>
         /\ StatedHeaderFields(rc.page, rc.cur)
         /\ rc.cur.header.next_record_offset
              = Some(rc.cur.offset + StatedDelta(rc.page, rc.cur.offset))
    /\ (rc.pc # "idle" /\ rc.last.called
          /\ rc.last.from.header.record_type # "Supremum") =>
         /\ rc.last.result = "some"
         /\ rc.cur.offset = rc.last.from.offset
                              + StatedDelta(rc.page, rc.last.from.offset)

\* C23: a decoded header has the info flags from the high 4 bits and the
\* records owned from the low 4 bits of body[o-5], the order from the top 13
\* bits and the type from the low 3 bits of the 16-bit value at body[o-4..o-2],
\* and the next offset o + delta where that sum is within 0..65535 (none
\* otherwise); Record::next of a record that is not the Supremum, whose next
\* offset exists and holds a header that decodes, is the record at that offset.
C23_RecordHeader ==
    /\ RecordDecoded =>
         /\ StatedHeaderFields(rc.page, rc.cur)
         /\ LET n == rc.cur.offset + StatedDelta(rc.page, rc.cur.offset) IN
            rc.cur.header.next_record_offset
              = IF n \in 0..U16_MAX THEN Some(n) ELSE None
    /\ (rc.pc # "idle" /\ rc.last.called
          /\ rc.last.from.header.record_type # "Supremum"
          /\ rc.last.from.header.next_record_offset.some
          /\ RecordHeader_try_from_offset(
               rc.page, rc.last.from.header.next_record_offset.n).kind = "ok") =>
         /\ rc.last.result = "some"
         /\ rc.cur.offset = rc.last.from.offset
                              + StatedDelta(rc.page, rc.last.from.offset)

\* Record::next of the infimum of an empty page (type Infimum, next offset 112,
\* order 0, one record owned, no flag) has returned the record at 112, the
\* Supremum, whose own next offset lies below its origin
C23_Witness ==
    /\ rc.pc = "iter"
    /\ rc.last.called /\ rc.last.result = "some"
    /\ rc.last.from.offset = INFIMUM_OFFSET
    /\ rc.last.from.header
         = [info_flags |-> 0, num_records_owned |-> 1, order |-> 0,
            record_type |-> "Infimum", next_record_offset |-> Some(SUPREMUM_OFFSET)]
    /\ rc.cur.offset = SUPREMUM_OFFSET
    /\ rc.cur.header.record_type = "Supremum"
    /\ rc.cur.header.next_record_offset.some
    /\ rc.cur.header.next_record_offset.n < SUPREMUM_OFFSET

(***************************************************************************)
(* Page::from_bytes: page/mod.rs                                           *)
(***************************************************************************)
\* the lengths of the byte buffers a page is made from
BufferLengths ==
    {0, FIL_HEADER_SIZE - 1, FIL_HEADER_SIZE, FIL_PAGE_SIZE - 1, FIL_PAGE_SIZE,
     FIL_PAGE_SIZE + 1, 2 * FIL_PAGE_SIZE}

\* the 16-bit page type values of the buffers: Allocated, LobData, LobFirst,
\* Index, and one outside the enum
PageTypeValues == {0, 23, 24, 17855, 99}

\* the byte buffers: the length, and the bytes the model chooses (the page
\* type, the last byte of the page number, of the space id and of the
\* trailer's checksum); every other byte is zero
Buffers ==
    [len : BufferLengths, page_type_value : PageTypeValues, offset : PageNos,
     space_id : {0, 1}, old_checksum : {0, 7}]

\* buf[p], for p < buf.len
BufferByte(buf, p) ==
    CASE p = 7 -> buf.offset
      [] p = 24 -> buf.page_type_value \div 256
      [] p = 25 -> buf.page_type_value % 256
      [] p = 37 -> buf.space_id
      [] p = FIL_PAGE_SIZE - FIL_TRAILER_SIZE + 3 -> buf.old_checksum
      [] OTHER -> 0

\* buf[from..from + n]
BufferTake(buf, from, n) == [i \in 1..n |-> BufferByte(buf, from + i - 1)]

\* PageType::try_from_primitive, Unknown for a value outside the enum
PageTypeOf(v) ==
    CASE v = 0 -> "Allocated"
      [] v = 23 -> "LobData"
      [] v = 24 -> "LobFirst"
      [] v = 17855 -> "Index"
      [] OTHER -> "Unknown"

\* FILHeader::from_bytes on the first 38 bytes of a buffer
FILHeader_from_bytes(buf) ==
    [new_checksum |-> from_be_bytes(BufferTake(buf, 0, 4)),
     offset |-> from_be_bytes(BufferTake(buf, 4, 4)),
     prev |-> from_be_bytes(BufferTake(buf, 8, 4)),
     next |-> from_be_bytes(BufferTake(buf, 12, 4)),
     lsn |-> from_be_bytes(BufferTake(buf, 16, 8)),
     page_type |-> PageTypeOf(from_be_bytes(BufferTake(buf, 24, 2))),
     flush_lsn |-> from_be_bytes(BufferTake(buf, 26, 8)),
     space_id |-> from_be_bytes(BufferTake(buf, 34, 4))]

\* FILTrailer::from_bytes on the last 8 bytes of a page
FILTrailer_from_bytes(buf) ==
    [old_checksum |-> from_be_bytes(BufferTake(buf, FIL_PAGE_SIZE - FIL_TRAILER_SIZE, 4)),
     lsn_low_32 |-> from_be_bytes(BufferTake(buf, FIL_PAGE_SIZE - FIL_TRAILER_SIZE + 4, 4))]

\* the errors: a variant of InnoDBError, or a message made by Error::msg
InnoDBError(variant) == [type |-> "InnoDBError", text |-> variant]
ErrorMsg(text) == [type |-> "msg", text |-> text]
NoError == [type |-> "", text |-> ""]

\* no page: from_bytes returned an error
NoPage ==
    [header |-> FILHeader_from_bytes([len |-> 0, page_type_value |-> 0, offset |-> 0,
                                      space_id |-> 0, old_checksum |-> 0]),
     trailer |-> [old_checksum |-> 0, lsn_low_32 |-> 0],
     raw_data |-> [len |-> 0, page_type_value |-> 0, offset |-> 0, space_id |-> 0,
                   old_checksum |-> 0]]

\* Page::from_bytes
Page_from_bytes(buf) ==
    IF buf.len # FIL_PAGE_SIZE
    THEN [kind |-> "err", error |-> ErrorMsg("Page is 16kB"), page |-> NoPage]
    ELSE [kind |-> "ok", error |-> NoError,
          page |-> [header |-> FILHeader_from_bytes(buf),
                    trailer |-> FILTrailer_from_bytes(buf),
                    raw_data |-> buf]]

\* a byte buffer before Page::from_bytes
PageInput(buf) ==
    [pc |-> "buffer", buf |-> buf,
     result |-> [kind |-> "none", error |-> NoError, page |-> NoPage]]

InitPage ==
    /\ InitLru
    /\ rw = DecoderIdle
    /\ rc = DecoderIdle
    /\ UnitsIdle
    /\ pg \in {PageInput(buf) : buf \in Buffers}

\* a call of Page::from_bytes
PageFromBytes ==
    /\ pg.pc = "buffer"
    /\ UNCHANGED <<managerVars, rw, rc, unitVars>>
    /\ pg' = [pg EXCEPT !.pc = "done", !.result = Page_from_bytes(pg.buf)]

NextPage == PageFromBytes

SpecPage == InitPage /\ [][NextPage]_vars

\* C10 (as claimed): Page::from_bytes succeeds exactly on a buffer of 16384
\* bytes, the page it returns has the buffer as its raw_data, and on any other
\* length it fails with the InvalidLength error.
C10_Original ==
    pg.pc = "done" =>
      /\ pg.result.kind = "ok" <=> pg.buf.len = FIL_PAGE_SIZE
      /\ pg.result.kind = "ok" => pg.result.page.raw_data = pg.buf
      /\ pg.result.kind # "ok" => pg.result.error = InnoDBError("InvalidLength")

(***************************************************************************)
(* Signed integer fields of every width: table/field.rs                    *)
(* A u64 or i64 is its eight bytes, the most significant first, so that     *)
(* the 6- and 8-byte widths are computed exactly.                          *)
(***************************************************************************)
\* the widths of the integer types: field.rs:120-125
IntWidths == {1, 2, 3, 4, 6, 8}

\* overflow checks are on in a debug build and off in a release build
Builds == {"debug", "release"}

\* Field::parse_uint on buf[0..len]: num = (num << 8) | byte
parse_uint_bytes(buf) ==
    [i \in 1..8 |-> IF i <= 8 - Len(buf) THEN 0 ELSE buf[i - (8 - Len(buf))]]

\* field.rs:97: num ^= 1u64 << (len * 8 - 1)
flip_sign_bit(num, len) ==
    [num EXCEPT ![8 - len + 1] = IF @ >= 128 THEN @ - 128 ELSE @ + 128]

\* field.rs:100: (num & (1u64 << (len * 8 - 1))) != 0
sign_bit_set(num, len) == num[8 - len + 1] >= 128

\* num - 1 for num > 0, borrowing from byte i upwards
RECURSIVE sub_one(_, _)
sub_one(num, i) ==
    IF i = 0 THEN num
    ELSE IF num[i] > 0 THEN [num EXCEPT ![i] = @ - 1]
    ELSE sub_one([num EXCEPT ![i] = 255], i - 1)

\* !num
bit_not(num) == [i \in 1..8 |-> 255 - num[i]]

\* field.rs:102: (1u64 << (len * 8)) - 1. For len = 8 the shift is by 64 bits:
\* a debug build panics (no mask), a release build shifts by 64 % 64 = 0 and
\* the mask is 1 - 1 = 0
low_mask(len, build) ==
    IF len < 8 THEN [ok |-> TRUE, mask |-> [i \in 1..8 |-> IF i > 8 - len THEN 255 ELSE 0]]
    ELSE IF build = "debug" THEN [ok |-> FALSE, mask |-> [i \in 1..8 |-> 0]]
    ELSE [ok |-> TRUE, mask |-> [i \in 1..8 |-> 0]]

\* num & mask, for a mask of whole bytes
bit_and(num, mask) == [i \in 1..8 |-> IF mask[i] = 255 THEN num[i] ELSE 0]

\* i64::MIN, whose negation overflows
I64_MIN == [i \in 1..8 |-> IF i = 1 THEN 128 ELSE 0]

\* field.rs:103: -(num as i64), as the bytes of the i64
negate(num) ==
    IF num = [i \in 1..8 |-> 0] THEN num ELSE bit_not(sub_one(num, 8))

\* what decoding an integer returned
IntResult(kind, value) == [kind |-> kind, value |-> value]

\* Field::parse_signed_int(buf, len), as the bytes of the i64 it returns
parse_signed_int_bytes(buf, len, build) ==
    LET num == flip_sign_bit(parse_uint_bytes(buf), len) IN
    IF sign_bit_set(num, len)
    THEN LET m == low_mask(len, build)
             masked == bit_and(bit_not(sub_one(num, 8)), m.mask)
         IN  IF ~m.ok THEN IntResult("panic", I64_MIN)
             ELSE IF masked = I64_MIN /\ build = "debug" THEN IntResult("panic", I64_MIN)
             ELSE IntResult("ok", negate(masked))
    ELSE IntResult("ok", num)

\* the w-byte two's-complement encodings the model decodes: the top byte, the
\* bytes between, the last byte
TopBytes == {0, 1, 127, 128, 129, 255}
FillBytes == {0, 255}
LastBytes == {0, 1, 255}

Encodings(w) ==
    IF w = 1 THEN {<<t>> : t \in TopBytes}
    ELSE {[i \in 1..w |-> IF i = 1 THEN t ELSE IF i = w THEN l ELSE f] :
            t \in TopBytes, f \in FillBytes, l \in LastBytes}

\* the wire form of a value: its encoding with the top bit flipped
WireForm(enc) == [enc EXCEPT ![1] = IF @ >= 128 THEN @ - 128 ELSE @ + 128]

\* the i64 with the value of a w-byte two's-complement encoding
sign_extend(enc) ==
    [i \in 1..8 |-> IF i <= 8 - Len(enc) THEN (IF enc[1] >= 128 THEN 255 ELSE 0)
                    ELSE enc[i - (8 - Len(enc))]]

IntInput(enc) ==
    [pc |-> "bytes", len |-> Len(enc), enc |-> enc, buf |-> WireForm(enc),
     build |-> "none", value |-> [i \in 1..8 |-> 0]]

InitInt ==
    /\ InitLru
    /\ rw = DecoderIdle /\ rc = DecoderIdle /\ pg = DecoderIdle
    /\ ck = DecoderIdle /\ sb = DecoderIdle /\ tb = DecoderIdle /\ ts = DecoderIdle
    /\ si \in {IntInput(enc) : enc \in UNION {Encodings(w) : w \in IntWidths}}

\* Field::parse_int_field(buf, len, true)
ParseSignedInt ==
    /\ si.pc = "bytes"
    /\ UNCHANGED <<managerVars, rw, rc, pg, ck, sb, tb, ts>>
    /\ \E build \in Builds :
         LET r == parse_signed_int_bytes(si.buf, si.len, build) IN
         si' = [si EXCEPT !.pc = IF r.kind = "ok" THEN "done" ELSE "panicked",
                          !.build = build, !.value = r.value]

NextInt == ParseSignedInt

SpecInt == InitInt /\ [][NextInt]_vars

\* C13 (as stated): for every width and every value of that width, decoding
\* the wire form of the value as a signed integer field returns the value,
\* without a panic.
C13_Original ==
    si.pc \in {"done", "panicked"} =>
      si.pc = "done" /\ si.value = sign_extend(si.enc)

(***************************************************************************)
(* The folded-byte checksum: page/mod.rs                                   *)
(* A u32 is its two 16-bit halves, so that sums and shifts wrap exactly.    *)
(***************************************************************************)
HASH_RANDOM_MASK == 1463735687
HASH_RANDOM_MASK2 == 1653893711
FIL_HEADER_PARTIAL_OFFSET == 4

\* (mutant) the partial header runs to the end of the FIL header
FIL_HEADER_PARTIAL_SIZE_Whole == FIL_HEADER_SIZE - 4

FIL_HEADER_PARTIAL_SIZE == FIL_HEADER_SIZE - 4 - 8 - 4
FIL_PAGE_BODY_OFFSET == 0 + FIL_HEADER_SIZE
FIL_PAGE_BODY_SIZE == FIL_PAGE_SIZE - FIL_HEADER_SIZE - FIL_TRAILER_SIZE

\* a u32 from a number below 2^31, and from its halves
U32(n) == [hi |-> n \div 65536, lo |-> n % 65536]
U32Halves(hi, lo) == [hi |-> hi, lo |-> lo]

\* a ^ b on n bits
RECURSIVE XorBits(_, _, _)
XorBits(a, b, n) ==
    IF n = 0 THEN 0 ELSE ((a + b) % 2) + 2 * XorBits(a \div 2, b \div 2, n - 1)

\* a ^ b for bytes, as a table
Xor8 == [a \in 0..255 |-> [b \in 0..255 |-> XorBits(a, b, 8)]]

Xor16(a, b) == Xor8[a \div 256][b \div 256] * 256 + Xor8[a % 256][b % 256]

\* a ^ b on u32
bit_xor(a, b) == [hi |-> Xor16(a.hi, b.hi), lo |-> Xor16(a.lo, b.lo)]

\* a << 8 on u32: the top byte is shifted out
shl8(a) == [hi |-> (a.hi % 256) * 256 + a.lo \div 256, lo |-> (a.lo % 256) * 256]

\* u32::wrapping_add
wrapping_add(a, b) ==
    [hi |-> (a.hi + b.hi + (a.lo + b.lo) \div 65536) % 65536,
     lo |-> (a.lo + b.lo) % 65536]

\* page/mod.rs:33-35
fold_pair(n1, n2) ==
    wrapping_add(
      bit_xor(wrapping_add(shl8(bit_xor(bit_xor(n1, n2), U32(HASH_RANDOM_MASK2))), n1),
              U32(HASH_RANDOM_MASK)),
      n2)

\* the pages a checksum is computed of: every byte is `fill`, but for one
\* marked byte
MarkedAt ==
    {0, 3, 4, 25, 26, 37, 38, 39, 8191, 16375, 16376, 16383}
MarkBytes == {1, 128, 255}

ChecksumPages == [mark_at : MarkedAt, mark : MarkBytes, fill : {0}]

\* page.raw_data[i]
raw_data(page, i) == IF i = page.mark_at THEN page.mark ELSE page.fill

\* fold_bytes(&raw_data[from..to]) continued from `fold`: the loop of
\* page/mod.rs:37-43, its range halved to bound the depth of the recursion
\* (the test of `left` has the first half folded before the second begins)
RECURSIVE fold_range(_, _, _, _)
fold_range(page, from, to, fold) ==
    IF from >= to THEN fold
    ELSE IF to - from = 1 THEN fold_pair(fold, U32(raw_data(page, from)))
    ELSE LET mid == from + (to - from) \div 2
             left == fold_range(page, from, mid, fold)
         IN  IF left.hi >= 0 THEN fold_range(page, mid, to, left) ELSE left

\* fold_bytes(&raw_data[offset..][..size])
fold_bytes(page, offset, size) == fold_range(page, offset, offset + size, U32(0))

ChecksumInput(page) ==
    [pc |-> "page", page |-> page, header_checksum |-> U32(0),
     body_checksum |-> U32(0), checksum |-> U32(0)]

InitChecksum ==
    /\ InitLru
    /\ rw = DecoderIdle /\ rc = DecoderIdle /\ pg = DecoderIdle
    /\ si = DecoderIdle /\ sb = DecoderIdle /\ tb = DecoderIdle /\ ts = DecoderIdle
    /\ ck \in {ChecksumInput(page) : page \in ChecksumPages}

\* page/mod.rs:87: fold_bytes(self.partial_page_header())
ChecksumHeader ==
    /\ ck.pc = "page"
    /\ UNCHANGED <<managerVars, rw, rc, pg, si, sb, tb, ts>>
    /\ ck' = [ck EXCEPT !.pc = "header",
                        !.header_checksum =
                           fold_bytes(ck.page, FIL_HEADER_PARTIAL_OFFSET,
                                      FIL_HEADER_PARTIAL_SIZE)]

\* page/mod.rs:88: fold_bytes(self.body())
ChecksumBody ==
    /\ ck.pc = "header"
    /\ UNCHANGED <<managerVars, rw, rc, pg, si, sb, tb, ts>>
    /\ ck' = [ck EXCEPT !.pc = "body",
                        !.body_checksum =
                           fold_bytes(ck.page, FIL_PAGE_BODY_OFFSET, FIL_PAGE_BODY_SIZE)]

\* page/mod.rs:89: Page::innodb_checksum returns the wrapping sum
ChecksumSum ==
    /\ ck.pc = "body"
    /\ UNCHANGED <<managerVars, rw, rc, pg, si, sb, tb, ts>>
    /\ ck' = [ck EXCEPT !.pc = "done",
                        !.checksum = wrapping_add(ck.header_checksum, ck.body_checksum)]

NextChecksum == ChecksumHeader \/ ChecksumBody \/ ChecksumSum

SpecChecksum == InitChecksum /\ [][NextChecksum]_vars

\* the formula of the claim with the masks m2 and m1:
\* ((((a ^ b ^ m2) << 8) + a) ^ m1) + b, every step modulo 2^32
StatedFoldPair(a, b, m2, m1) ==
    LET x == bit_xor(bit_xor(a, b), m2)
        y == wrapping_add(shl8(x), a)
    IN  wrapping_add(bit_xor(y, m1), b)

\* folded left from 0 over the page bytes from..to-1
RECURSIVE StatedFold(_, _, _, _, _, _)
StatedFold(page, from, to, acc, m2, m1) ==
    IF from >= to THEN acc
    ELSE IF to - from = 1 THEN StatedFoldPair(acc, U32(raw_data(page, from)), m2, m1)
    ELSE LET mid == from + (to - from) \div 2
             left == StatedFold(page, from, mid, acc, m2, m1)
         IN  IF left.hi >= 0 THEN StatedFold(page, mid, to, left, m2, m1) ELSE left

StatedChecksum(page, m2, m1) ==
    wrapping_add(StatedFold(page, 4, 26, U32(0), m2, m1),
                 StatedFold(page, 38, 16376, U32(0), m2, m1))

SimpleImages(k) == {GoodImage(k, "Index", 1), GoodImage(k, "Index", 2)}

\* what get_page returned and the cache it left
GetPage(result, cache, bytes, file_opened) ==
    [result |-> result, page_cache |-> cache, bytes |-> bytes,
     file_opened |-> file_opened]

\* simple.rs:33-37: the page is in the cache
get_page_cached(cache, k) == GetPage("ok", cache, cache[k], FALSE)

\* (mutant) the buffer of a failed read_exact is cached
get_page_read_keeps_torn(cache, k, io, img) ==
    IF io \in {"open_err", "seek_err"} THEN GetPage(io, cache, TornPage, TRUE)
    ELSE IF io = "read_err" THEN GetPage(io, MapInsert(cache, k, TornPage), TornPage, TRUE)
    ELSE GetPage("ok", MapInsert(cache, k, img), img, TRUE)

\* simple.rs:39-51: the page is read from its file and cached
get_page_read(cache, k, io, img) ==
    IF io # "ok" THEN GetPage(io, cache, TornPage, TRUE)
    ELSE GetPage("ok", MapInsert(cache, k, img), img, TRUE)

\* SimpleBufferManager::get_page
get_page(cache, k, io, img) ==
    IF k \in DOMAIN cache THEN get_page_cached(cache, k)
    ELSE get_page_read(cache, k, io, img)

\* the guards the caller holds
SimpleGuardCount == BagCardinality(sb.guards)

\* SimpleBufferManager::new
InitSimple ==
    /\ InitLru
    /\ rw = DecoderIdle /\ rc = DecoderIdle /\ pg = DecoderIdle
    /\ si = DecoderIdle /\ ck = DecoderIdle /\ tb = DecoderIdle /\ ts = DecoderIdle
    /\ sb = [pc |-> "running", page_cache |-> <<>>, guards |-> EmptyBag,
             last |-> [op |-> "new", key |-> NoKey, result |-> "ok",
                       bytes |-> TornPage, file_opened |-> FALSE]]

\* SimpleBufferManager::pin: Page::from_bytes takes every 16384-byte buffer,
\* so the call returns what get_page returned
SimplePin ==
    /\ sb.pc = "running"
    /\ SimpleGuardCount < MaxGuards
    /\ UNCHANGED <<managerVars, rw, rc, pg, si, ck, tb, ts>>
    /\ \E k \in Keys, io \in IoOutcomes :
        \E img \in SimpleImages(k) :
          LET r == get_page(sb.page_cache, k, io, img) IN
          sb' = [sb EXCEPT
                   !.page_cache = r.page_cache,
                   !.guards = IF r.result = "ok" THEN @ (+) SetToBag({k}) ELSE @,
                   !.last = [op |-> "pin", key |-> k, result |-> r.result,
                             bytes |-> r.bytes, file_opened |-> r.file_opened]]

\* PageGuard::drop, SimpleBufferManager::unpin: a trace line
SimpleDrop ==
    /\ sb.pc = "running"
    /\ UNCHANGED <<managerVars, rw, rc, pg, si, ck, tb, ts>>
    /\ \E k \in BagToSet(sb.guards) :
          sb' = [sb EXCEPT
                   !.guards = @ (-) SetToBag({k}),
                   !.last = [op |-> "unpin", key |-> k, result |-> "ok",
                             bytes |-> TornPage, file_opened |-> FALSE]]

NextSimple == SimplePin \/ SimpleDrop

SpecSimple == InitSimple /\ [][NextSimple]_vars

\* C16: in every step of the simple manager each cached key stays cached with
\* the bytes it has; a pin of a cached key opens no file and returns those
\* bytes; a pin that succeeds leaves its key cached; a pin whose file cannot
\* be opened, positioned or read leaves the cache as it was; a guard drop
\* leaves the cache as it was.
C16_SimpleCacheKeeps ==
    [][ /\ \A k \in DOMAIN sb.page_cache :
             k \in DOMAIN sb'.page_cache /\ sb'.page_cache[k] = sb.page_cache[k]
        /\ (sb'.last.op = "pin" /\ sb'.last.key \in DOMAIN sb.page_cache) =>
             /\ sb'.last.result = "ok"
             /\ ~sb'.last.file_opened
             /\ sb'.last.bytes = sb.page_cache[sb'.last.key]
        /\ (sb'.last.op = "pin" /\ sb'.last.result = "ok") =>
             /\ sb'.last.key \in DOMAIN sb'.page_cache
             /\ sb'.page_cache[sb'.last.key] = sb'.last.bytes
        /\ (sb'.last.op = "pin" /\ sb'.last.result # "ok") =>
             sb'.page_cache = sb.page_cache
        /\ sb'.last.op = "unpin" => sb'.page_cache = sb.page_cache
      ]_vars

\* a cached key has been pinned again, with no file opened and with the bytes
\* first read, while another key is cached too and a third is not
C16_Witness ==
    /\ sb.pc = "running"
    /\ sb.last.op = "pin"
    /\ sb.last.result = "ok"
    /\ ~sb.last.file_opened
    /\ sb.last.bytes = GoodImage(sb.last.key, "Index", 2)
    /\ BagCardinality(sb.guards) = MaxGuards
    /\ DOMAIN sb.page_cache # Keys
    /\ Cardinality(DOMAIN sb.page_cache) >= 2

(***************************************************************************)
(* The errors of record decoding: page/record.rs                           *)
(***************************************************************************)
\* the error RecordHeader::try_from_offset returns: record.rs:50 passes on the
\* message of InfoFlags::try_from_primitive, record.rs:53 the error of
\* num_enum's RecordType::try_from_primitive
RecordHeaderError(page, offset) ==
    IF RecordHeader_try_from_offset(page, offset).kind # "err" THEN NoError
    ELSE IF (PageByte(page, offset - 5) \div 16) \div 4 # 0
    THEN ErrorMsg("Unexpected bitfield value")
    ELSE [type |-> "TryFromPrimitiveError", text |-> "RecordType"]

\* the last call of Record::next decoded a record whose type field is outside
\* the enum
NextMetUnknownType ==
    /\ rc.pc # "idle"
    /\ rc.last.called
    /\ rc.last.from.header.record_type # "Supremum"
    /\ rc.last.from.header.next_record_offset.some
    /\ RecordHeaderError(rc.page, rc.last.from.header.next_record_offset.n).type
         = "TryFromPrimitiveError"

\* C17 (as stated): when the type field of the record that Record::next
\* decodes is outside the enum, the decoding fails with InvalidPage and the
\* call does not end the traversal with None.
C17_Original ==
    NextMetUnknownType =>
      /\ RecordHeaderError(rc.page, rc.last.from.header.next_record_offset.n)
           = InnoDBError("InvalidPage")
      /\ rc.last.result # "none"

(***************************************************************************)
(* TableDefinition::try_from_sql_statement: table/mod.rs                   *)
(* The statement is taken as sqlparser returns it: the columns with their  *)
(* options and the table constraints.                                      *)
(***************************************************************************)
Int6(signed) == [kind |-> "Int6", signed |-> signed, len |-> 6, charset_max_len |-> 1]

\* a column definition: its name and whether its options hold NOT NULL and
\* PRIMARY KEY (every column of the model is a TINYINT UNSIGNED)
ColumnDef(name, not_null, primary_key) ==
    [name |-> name, not_null |-> not_null, primary_key |-> primary_key]

\* TableConstraint::PrimaryKey, TableConstraint::Unique
TableConstraint(kind, columns) == [kind |-> kind, columns |-> columns]

\* the column lists of the keys the model declares
KeyColumns == {<<"a">>, <<"b", "a">>, <<"c">>}

\* the constraint lists: up to two PRIMARY KEY or UNIQUE constraints
ConstraintLists ==
    LET cs == {TableConstraint(k, c) : k \in {"PrimaryKey", "Unique"}, c \in KeyColumns}
    IN  {<<>>} \cup {<<c>> : c \in cs} \cup {<<c, d>> : c \in cs, d \in cs}

\* the CREATE TABLE statements: columns a, b, c, each NOT NULL or not; a
\* PRIMARY KEY option on column a only where no constraint declares a key
Statements ==
    LET all == {[columns |-> <<ColumnDef("a", na, pk), ColumnDef("b", nb, FALSE),
                               ColumnDef("c", nc, FALSE)>>,
                 constraints |-> cs] :
                   na \in BOOLEAN, nb \in BOOLEAN, nc \in BOOLEAN,
                   pk \in BOOLEAN, cs \in ConstraintLists}
    IN  {st \in all :
           st.columns[1].primary_key =>
             \A i \in 1..Len(st.constraints) : st.constraints[i].kind # "PrimaryKey"}

\* table/mod.rs:40-114: the fields of the declared columns
parsed_fields(stmt) ==
    [i \in 1..Len(stmt.columns) |->
        Field(stmt.columns[i].name, TinyInt(FALSE), ~stmt.columns[i].not_null)]

\* table/mod.rs:117-150: the loop over the constraints
RECURSIVE ConstraintLoop(_, _, _, _)
ConstraintLoop(constraints, i, cluster_index_columns, unique_keys) ==
    IF i > Len(constraints)
    THEN [ok |-> TRUE, cluster_index_columns |-> cluster_index_columns,
          unique_keys |-> unique_keys]
    ELSE IF constraints[i].kind = "PrimaryKey"
    THEN IF cluster_index_columns # <<>>
         THEN [ok |-> FALSE, cluster_index_columns |-> cluster_index_columns,
               unique_keys |-> unique_keys]
         ELSE ConstraintLoop(constraints, i + 1,
                             cluster_index_columns \o constraints[i].columns, unique_keys)
    ELSE IF constraints[i].kind = "Unique"
    THEN ConstraintLoop(constraints, i + 1, cluster_index_columns,
                        Append(unique_keys, constraints[i].columns))
    ELSE ConstraintLoop(constraints, i + 1, cluster_index_columns, unique_keys)

\* parsed_fields.iter().find(|f| f.name == name): its index, 0 for None
find_field(fields, name) ==
    IF \E i \in 1..Len(fields) : fields[i].name = name
    THEN CHOOSE i \in 1..Len(fields) :
           /\ fields[i].name = name
           /\ \A j \in 1..(i - 1) : fields[j].name # name
    ELSE 0

\* table/mod.rs:157-163
is_all_not_null(fields, unique) ==
    \A n \in 1..Len(unique) :
        /\ find_field(fields, unique[n]) # 0
        /\ ~fields[find_field(fields, unique[n])].nullable

\* table/mod.rs:154-171: the first unique key over NOT NULL columns
RECURSIVE FirstUnique(_, _, _)
FirstUnique(fields, unique_keys, i) ==
    IF i > Len(unique_keys) THEN <<>>
    ELSE IF is_all_not_null(fields, unique_keys[i]) THEN unique_keys[i]
    ELSE FirstUnique(fields, unique_keys, i + 1)

\* what try_from_sql_statement returned
TableResult(kind, cluster_columns, data_columns) ==
    [kind |-> kind, cluster_columns |-> cluster_columns, data_columns |-> data_columns]

\* TableDefinition::try_from_sql_statement on a CREATE TABLE statement
try_from_sql_statement(stmt) ==
    LET fields == parsed_fields(stmt)
        loop == ConstraintLoop(stmt.constraints, 1, <<>>, <<>>)
        cluster_index_columns ==
            IF loop.cluster_index_columns # <<>> THEN loop.cluster_index_columns
            ELSE FirstUnique(fields, loop.unique_keys, 1)
        rowid == IF cluster_index_columns = <<>>
                 THEN <<Field("ROWID", Int6(FALSE), FALSE)>> ELSE <<>>
        in_key(f) == \E n \in 1..Len(cluster_index_columns) : cluster_index_columns[n] = f.name
    IN
    IF ~loop.ok THEN TableResult("panic", <<>>, <<>>)
    ELSE IF \E n \in 1..Len(cluster_index_columns) :
              find_field(fields, cluster_index_columns[n]) = 0
    THEN TableResult("panic", <<>>, <<>>)
    ELSE TableResult("ok",
           rowid \o [n \in 1..Len(cluster_index_columns) |->
                       fields[find_field(fields, cluster_index_columns[n])]],
           SelectSeq(fields, LAMBDA f : ~in_key(f)))

SqlInput(stmt) ==
    [pc |-> "sql", stmt |-> stmt, td |-> TableResult("none", <<>>, <<>>)]

InitTable ==
    /\ InitLru
    /\ rw = DecoderIdle /\ rc = DecoderIdle /\ pg = DecoderIdle
    /\ si = DecoderIdle /\ ck = DecoderIdle /\ sb = DecoderIdle /\ ts = DecoderIdle
    /\ tb \in {SqlInput(stmt) : stmt \in Statements}

\* TableDefinition::try_from_sql_statement
ParseSql ==
    /\ tb.pc = "sql"
    /\ UNCHANGED <<managerVars, rw, rc, pg, si, ck, sb, ts>>
    /\ LET td == try_from_sql_statement(tb.stmt) IN
       tb' = [tb EXCEPT !.pc = IF td.kind = "ok" THEN "done" ELSE "panicked",
                        !.td = td]

NextTable == ParseSql

SpecTable == InitTable /\ [][NextTable]_vars

\* the names of a list of fields
FieldNames(fields) == [i \in 1..Len(fields) |-> fields[i].name]

\* the primary key a statement declares: by a constraint, or by the PRIMARY
\* KEY option of a column
DeclaredPrimaryKey(stmt) ==
    IF \E i \in 1..Len(stmt.constraints) : stmt.constraints[i].kind = "PrimaryKey"
    THEN stmt.constraints[CHOOSE i \in 1..Len(stmt.constraints) :
                            stmt.constraints[i].kind = "PrimaryKey"].columns
    ELSE SelectSeq(FieldNames(stmt.columns),
                   LAMBDA n : \E i \in 1..Len(stmt.columns) :
                                 stmt.columns[i].name = n /\ stmt.columns[i].primary_key)

\* the i-th constraint is a UNIQUE key all of whose columns are NOT NULL
UsableUnique(stmt, i) ==
    /\ stmt.constraints[i].kind = "Unique"
    /\ \A n \in 1..Len(stmt.constraints[i].columns) :
         \E c \in 1..Len(stmt.columns) :
            /\ stmt.columns[c].name = stmt.constraints[i].columns[n]
            /\ stmt.columns[c].not_null

\* the key the claim has the table clustered by; <<>> for none
StatedKey(stmt) ==
    IF DeclaredPrimaryKey(stmt) # <<>> THEN DeclaredPrimaryKey(stmt)
    ELSE IF \E i \in 1..Len(stmt.constraints) : UsableUnique(stmt, i)
    THEN stmt.constraints[CHOOSE i \in 1..Len(stmt.constraints) :
                            /\ UsableUnique(stmt, i)
                            /\ \A j \in 1..(i - 1) : ~UsableUnique(stmt, j)].columns
    ELSE <<>>

\* C18 (as stated): the cluster columns are the declared primary key, else the
\* first UNIQUE key over NOT NULL columns, else the synthesized ROWID column;
\* the data columns are the declared columns outside the chosen key, in the
\* order of their declaration; the cluster columns are never empty.
C18_Original ==
    tb.pc = "done" =>
      LET key == StatedKey(tb.stmt) IN
      /\ tb.td.cluster_columns # <<>>
      /\ IF key = <<>>
         THEN tb.td.cluster_columns = <<Field("ROWID", Int6(FALSE), FALSE)>>
         ELSE FieldNames(tb.td.cluster_columns) = key
      /\ FieldNames(tb.td.data_columns)
           = SelectSeq(FieldNames(tb.stmt.columns),
                       LAMBDA n : \A k \in 1..Len(key) : key[k] # n)

(***************************************************************************)
(* Claims about the frame a pin takes                                      *)
(***************************************************************************)
\* the frames find_free sees as empty, and those it may take from a page
EmptyFrames == {f \in Frames : lru_list[f] = 0}

UnpinnedFrames == {f \in Frames : page_pin_counter[f] = 0}

\* the step is a pin of a page that was not resident, and find_free gave it a frame
MissTookFrame ==
    last'.op = "pin" /\ last'.result # "hit" /\ last'.frame # NoFrame

\* C19: on a miss, if some frame is empty (timestamp 0) the page goes to the
\* lowest-indexed empty frame and no resident page leaves the directory;
\* otherwise the page evicted is the one whose frame has the smallest
\* timestamp among the frames with pin count 0, and the page goes to its frame.
C19_FindFreePolicy ==
    [][MissTookFrame =>
         IF EmptyFrames # {}
         THEN /\ last'.frame \in EmptyFrames
              /\ \A f \in EmptyFrames : last'.frame <= f
              /\ last'.evicted = NoKey
              /\ \A k \in DOMAIN page_pin_map :
                   k \in DOMAIN page_pin_map' /\ page_pin_map'[k] = page_pin_map[k]
         ELSE /\ last'.frame \in UnpinnedFrames
              /\ \A f \in UnpinnedFrames : lru_list[last'.frame] <= lru_list[f]
              /\ last'.evicted \in DOMAIN page_pin_map
              /\ page_pin_map[last'.evicted] = last'.frame
              /\ last'.evicted \notin DOMAIN page_pin_map'
              /\ \A k \in (DOMAIN page_pin_map) \ {last'.evicted} :
                   k \in DOMAIN page_pin_map' /\ page_pin_map'[k] = page_pin_map[k]]_vars

\* a miss has just evicted the page of frame 1 although frame 0 holds an
\* unpinned page too: frame 0, untouched by the call, carries the later timestamp
C19_Witness ==
    /\ last.op = "pin" /\ last.result = "loaded" /\ last.evicted # NoKey
    /\ last.frame = 1
    /\ Resident(0) /\ page_pin_counter[0] = 0 /\ lru_list[0] = MaxTime

\* the step is a pin of a page that was resident
PinWasHit == last'.op = "pin" /\ last'.result = "hit"

\* C20: a pin of a resident page raises the pin counter of that page's frame by
\* one and sets that frame's timestamp; the directory, the counter and the
\* timestamp of every other frame, the bytes of every frame and the files are
\* as they were, and nothing is evicted.
C20_HitTouchesOneFrame ==
    [][PinWasHit =>
         /\ last'.key \in DOMAIN page_pin_map
         /\ LET f == page_pin_map[last'.key] IN
            /\ last'.frame = f
            /\ page_pin_counter' = [page_pin_counter EXCEPT ![f] = @ + 1]
            /\ lru_list'[f] \in Times
            /\ \A g \in Frames \ {f} : lru_list'[g] = lru_list[g]
         /\ last'.evicted = NoKey
         /\ page_pin_map' = page_pin_map
         /\ backing_store' = backing_store
         /\ files' = files]_vars

\* a hit on a page that was already pinned, beside another resident page whose
\* frame keeps an earlier timestamp
C20_Witness ==
    /\ last.op = "pin" /\ last.result = "hit"
    /\ page_pin_counter[last.frame] = 2
    /\ \E g \in Frames \ {last.frame} :
         Resident(g) /\ lru_list[g] # 0 /\ lru_list[g] < lru_list[last.frame]

(***************************************************************************)
(* Claims about the directory of the LRU buffer manager                    *)
(***************************************************************************)
\* the directory entries that map to frame f
EntriesOf(f) == {k \in DOMAIN page_pin_map : page_pin_map[k] = f}

\* C26: after any calls of pin and any guard drops, a frame has a nonzero
\* timestamp if and only if exactly one directory entry maps to it, no two
\* entries map to one frame, and every frame with pin count > 0 is resident.
C26_DirectoryMatchesFrames ==
    /\ \A f \in Frames : lru_list[f] # 0 <=> Cardinality(EntriesOf(f)) = 1
    /\ \A f \in Frames : Cardinality(EntriesOf(f)) <= 1
    /\ \A f \in Frames : page_pin_counter[f] > 0 => EntriesOf(f) # {}

\* a pin has evicted a page and then failed to read: its frame has timestamp 0
\* and no entry, beside a frame that is resident and pinned
C26_Witness ==
    /\ last.op = "pin" /\ last.result = "io_read" /\ last.evicted # NoKey
    /\ lru_list[last.frame] = 0 /\ EntriesOf(last.frame) = {}
    /\ \E f \in Frames : page_pin_counter[f] > 0 /\ lru_list[f] # 0

\* the step is a pin that returned an error
PinReturnedErr == last'.op = "pin" /\ last'.result \in PinErrors

\* C27 (as stated): a pin that returns an error leaves the resident pages as
\* they were: every page of the directory is still in it, in the same frame
\* and with the same bytes.
C27_Original ==
    [][PinReturnedErr =>
         \A k \in DOMAIN page_pin_map :
           /\ k \in DOMAIN page_pin_map'
           /\ page_pin_map'[k] = page_pin_map[k]
           /\ backing_store'[page_pin_map[k]] = backing_store[page_pin_map[k]]]_vars

(***************************************************************************)
(* tablespace_sort: bin/tablespace_sort.rs                                 *)
(* The output file is kept as its 16 KiB spans: 0 for a span of zeros, n   *)
(* for the bytes of the n-th input page.                                   *)
(***************************************************************************)
\* the longest input of the model, in pages
MaxInputPages == 3

\* an input page: the page type and page number of its FIL header
InputPage(page_type, offset) == [page_type |-> page_type, offset |-> offset]

InputPages == {InputPage(t, o) : t \in {"Allocated", "Index"}, o \in PageNos}

\* the input files: every sequence of up to MaxInputPages pages, in any order
\* and with repeated page numbers
SortInputs == UNION {[1..n -> InputPages] : n \in 0..MaxInputPages}

\* a build with debug assertions, and one without
SortBuilds == {"debug", "release"}

\* (mutant) every page is written at the end of the file
write_at_end(output, pos, content) == Append(output, content)

\* seek(SeekFrom::Start(pos)) and write_all of 16384 bytes, pos a multiple of
\* FIL_PAGE_SIZE
write_at(output, pos, content) ==
    LET slot == pos \div FIL_PAGE_SIZE + 1
        len == IF slot > Len(output) THEN slot ELSE Len(output)
    IN  [n \in 1..len |-> IF n = slot THEN content
                          ELSE IF n <= Len(output) THEN output[n] ELSE 0]

\* tablespace_sort.rs:80-88: the file is filled with zeros up to the page
RECURSIVE ZeroFill(_, _, _)
ZeroFill(output, output_len, page_offset_in_file) ==
    IF output_len < page_offset_in_file
    THEN ZeroFill(write_at(output, output_len, 0), output_len + FIL_PAGE_SIZE,
                  page_offset_in_file)
    ELSE [output |-> output, output_len |-> output_len]

\* tablespace_sort.rs:90-92: the condition of the first debug_assert
TackedOnOrWithin(page_offset_in_file, output_len) ==
    \/ page_offset_in_file = output_len
    \/ page_offset_in_file + FIL_PAGE_SIZE < output_len

SortInput(build, dry_run, input) ==
    [pc |-> "read", build |-> build, dry_run |-> dry_run, input |-> input,
     pages_processed |-> 0, output |-> <<>>, output_len |-> 0,
     within_held |-> TRUE, aligned_held |-> TRUE]

InitSort ==
    /\ InitLru
    /\ rw = DecoderIdle /\ rc = DecoderIdle /\ pg = DecoderIdle
    /\ si = DecoderIdle /\ ck = DecoderIdle /\ sb = DecoderIdle /\ tb = DecoderIdle
    /\ ts \in {SortInput(b, d, i) : b \in SortBuilds, d \in BOOLEAN, i \in SortInputs}

\* tablespace_sort.rs:55-107: one turn of the loop on a page that was read
SortPage ==
    /\ ts.pc = "read"
    /\ ts.pages_processed < Len(ts.input)
    /\ UNCHANGED <<managerVars, rw, rc, pg, si, ck, sb, tb>>
    /\ LET n == ts.pages_processed + 1
           page == ts.input[n]
           page_offset_in_file == page.offset * FIL_PAGE_SIZE
           filled == ZeroFill(ts.output, ts.output_len, page_offset_in_file)
           within == TackedOnOrWithin(page_offset_in_file, filled.output_len)
           written == write_at(filled.output, page_offset_in_file, n)
           output_len == IF page_offset_in_file = filled.output_len
                         THEN filled.output_len + FIL_PAGE_SIZE
                         ELSE filled.output_len
           aligned == output_len % FIL_PAGE_SIZE = 0
       IN
       IF page.page_type = "Allocated" \/ ts.dry_run
       THEN ts' = [ts EXCEPT !.pages_processed = n]
       ELSE IF ~within /\ ts.build = "debug"
       THEN ts' = [ts EXCEPT !.pc = "panicked", !.pages_processed = n,
                             !.output = filled.output,
                             !.output_len = filled.output_len,
                             !.within_held = FALSE]
       ELSE ts' = [ts EXCEPT
                     !.pc = IF ~aligned /\ ts.build = "debug" THEN "panicked" ELSE "read",
                     !.pages_processed = n,
                     !.output = written,
                     !.output_len = output_len,
                     !.within_held = @ /\ within,
                     !.aligned_held = @ /\ aligned]

\* tablespace_sort.rs:109: read_exact fails at the end of the input
SortEnd ==
    /\ ts.pc = "read"
    /\ ts.pages_processed = Len(ts.input)
    /\ UNCHANGED <<managerVars, rw, rc, pg, si, ck, sb, tb>>
    /\ ts' = [ts EXCEPT !.pc = "done"]

NextSort == SortPage \/ SortEnd

SpecSort == InitSort /\ [][NextSort]_vars

\* the input pages of number k that are not Allocated
Carriers(input, k) ==
    {n \in 1..Len(input) : input[n].offset = k /\ input[n].page_type # "Allocated"}

\* the greatest number of a set of numbers
Greatest(S) == CHOOSE n \in S : \A m \in S : m <= n

\* C25: when tablespace_sort has processed its input and written an output,
\* the span k of the output is the last input page that carries number k and
\* is not Allocated, every other span below the output length is zero, and no
\* Allocated page is written.
C25_SortedOutput ==
    (ts.pc = "done" /\ ~ts.dry_run) =>
      /\ ts.output_len = Len(ts.output) * FIL_PAGE_SIZE
      /\ \A k \in PageNos :
           IF Carriers(ts.input, k) # {}
           THEN k + 1 <= Len(ts.output)
                  /\ ts.output[k + 1] = Greatest(Carriers(ts.input, k))
           ELSE k + 1 <= Len(ts.output) => ts.output[k + 1] = 0
      /\ \A j \in 1..Len(ts.output) :
           ts.output[j] # 0 => ts.input[ts.output[j]].page_type # "Allocated"

\* a run has ended on an input out of order, with a page number carried twice,
\* a hole and an Allocated page: page 2, then page 0 twice, page 1 Allocated
C25_Witness ==
    /\ ts.pc = "done" /\ ~ts.dry_run
    /\ Len(ts.input) = MaxInputPages
    /\ Len(ts.output) = 3
    /\ ts.output[2] = 0
    /\ ts.output[1] > 1 /\ ts.output[3] = 1
    /\ Cardinality(Carriers(ts.input, 0)) + Cardinality(Carriers(ts.input, 2)) = 3

\* C28 (as stated): for every input both assertions hold at every step: the
\* tracked output length is a multiple of 16384, and each page is written
\* exactly at the end of the output or entirely inside it, as the first
\* assertion has it (page offset + 16384 < output length).
C28_Original ==
    ts.pc # "idle" => ts.within_held /\ ts.aligned_held

====
